---- MODULE Spec2Model ----
(***************************************************************************)
(* Model of the MCP subregistry: the sync service (services/sync.ts), the  *)
(* storage schema (db/schema.ts), the admin routes that write the locally  *)
(* owned fields (routes/admin.ts) and the list endpoint of the read API    *)
(* (routes/registry.ts).                                                   *)
(*                                                                         *)
(* Strings that the code takes apart (names, versions, cursors) are        *)
(* sequences of character codes; opaque strings are TLA+ strings; JSON     *)
(* maps are functions from a finite set of keys; a Date is a number of     *)
(* clock ticks.                                                            *)
(***************************************************************************)
EXTENDS Integers, Sequences, FiniteSets, TLC

\* ------------------------------------------------------------------ bounds
\* last instant of the clock
MaxTime == 3
\* clock ticks per second: the storage keeps whole seconds only
TicksPerSecond == 2
\* number of sync invocations (cron or manual) in one behaviour
MaxInvocations == 2
\* number of records the upstream feed puts on one page
UpstreamPageSize == 1
\* largest limit a client of GET /servers asks for (the route allows 1..100)
MaxLimit == 2
\* largest limit GET /servers accepts
LimitMax == 100
\* number of page requests after which a list traversal is cut off
MaxPages == 5

\* ------------------------------------------------------- program constants
\* lastSync?.syncedAt when no successful sync_log row exists (undefined)
NoWatermark == -1
\* z.string().min(3).max(200) on the server name
NameMinLen == 3
NameMaxLen == 200
\* z.string().max(255) on the version
VersionMaxLen == 255

Absent == "absent"
Null == "null"
Statuses == {"active", "deprecated", "deleted"}
Visibilities == {"draft", "published"}

\* ----------------------------------------------------------------- strings
Ascii ==
  [bang |-> 33, pct |-> 37, dash |-> 45, dot |-> 46, slash |-> 47,
   d0 |-> 48, d1 |-> 49, d2 |-> 50, colon |-> 58, us |-> 95,
   a |-> 97, x |-> 120, y |-> 121]

IsAlnum(c) == c \in (48..57) \cup (65..90) \cup (97..122)

\* /^[a-zA-Z0-9.-]+\/[a-zA-Z0-9._-]+$/ with min(3), max(200)
NameOk(s) ==
  /\ Len(s) >= NameMinLen
  /\ Len(s) <= NameMaxLen
  /\ \E i \in 2..(Len(s) - 1) :
        /\ s[i] = Ascii.slash
        /\ \A j \in 1..(i - 1) : IsAlnum(s[j]) \/ s[j] \in {Ascii.dot, Ascii.dash}
        /\ \A j \in (i + 1)..Len(s) :
              IsAlnum(s[j]) \/ s[j] \in {Ascii.dot, Ascii.dash, Ascii.us}

VersionOk(s) == Len(s) <= VersionMaxLen

\* binary (memcmp) order of SQLite's default collation
RECURSIVE StrLess(_, _)
StrLess(s, t) ==
  IF t = <<>> THEN FALSE
  ELSE IF s = <<>> THEN TRUE
  ELSE IF Head(s) # Head(t) THEN Head(s) < Head(t)
  ELSE StrLess(Tail(s), Tail(t))

\* (name, version) tuple order: ORDER BY name ASC, version ASC
KeyLess(k1, k2) ==
  \/ StrLess(k1[1], k2[1])
  \/ k1[1] = k2[1] /\ StrLess(k1[2], k2[2])

\* -------------------------------------------------------------------- maps
EmptyMap == [k \in {} |-> "none"]

\* { ...m1, ...m2 }
Spread(m1, m2) ==
  [k \in (DOMAIN m1) \cup (DOMAIN m2) |->
      IF k \in DOMAIN m2 THEN m2[k] ELSE m1[k]]

\* -------------------------------------------------------------------- time
\* integer column with mode "timestamp": a Date is stored as whole seconds
ToStoredTime(t) == (t \div TicksPerSecond) * TicksPerSecond

\* ---------------------------------------------------------- upstream feed
NameAX == <<Ascii.a, Ascii.slash, Ascii.x>>
NameAY == <<Ascii.a, Ascii.slash, Ascii.y>>
Version1 == <<Ascii.d1>>
Version2 == <<Ascii.d2>>
Version100 == <<Ascii.d1, Ascii.dot, Ascii.d0, Ascii.dot, Ascii.d0>>

\* the (name, version) pairs the upstream feed publishes in the sync model
FeedKeys == {<<NameAX, Version1>>, <<NameAX, Version2>>}

\* contents a feed entry can have; "bad" fails validation (empty description);
\* a superseded release is "old": "full" with isLatest = false
FeedVariants == {"full", "bare", "bad"}

VariantBody(v) ==
  IF v = "full" THEN
    [description |-> "first", status |-> Absent, repository |-> "repo",
     websiteUrl |-> "site", packages |-> "pkgs", remotes |-> "rems",
     meta |-> ("pa" :> "p1") @@ ("pb" :> "p1"),
     officialStatus |-> "active", isLatest |-> TRUE, publishedAt |-> 2]
  ELSE IF v = "bare" THEN
    [description |-> "second", status |-> Absent, repository |-> Absent,
     websiteUrl |-> Absent, packages |-> Absent, remotes |-> Absent,
     meta |-> ("pa" :> "p2"),
     officialStatus |-> "deprecated", isLatest |-> FALSE, publishedAt |-> 1]
  ELSE IF v = "old" THEN
    [description |-> "first", status |-> Absent, repository |-> "repo",
     websiteUrl |-> "site", packages |-> "pkgs", remotes |-> "rems",
     meta |-> ("pa" :> "p1") @@ ("pb" :> "p1"),
     officialStatus |-> "active", isLatest |-> FALSE, publishedAt |-> 2]
  ELSE
    [description |-> "", status |-> Absent, repository |-> Absent,
     websiteUrl |-> Absent, packages |-> Absent, remotes |-> Absent,
     meta |-> EmptyMap,
     officialStatus |-> "active", isLatest |-> FALSE, publishedAt |-> 0]

\* one element of the "servers" array of an upstream response
RawRecord(k, entry) ==
  LET b == VariantBody(entry.variant) IN
  [server |-> [name |-> k[1], version |-> k[2], description |-> b.description,
               status |-> b.status, repository |-> b.repository,
               websiteUrl |-> b.websiteUrl, packages |-> b.packages,
               remotes |-> b.remotes, meta |-> b.meta],
   meta |-> [official |-> [status |-> b.officialStatus,
                           publishedAt |-> b.publishedAt,
                           updatedAt |-> entry.updatedAt,
                           isLatest |-> b.isLatest]]]

\* OfficialRegistryServerResponseSchema.safeParse(rawServer).success
IsValidRecord(raw) ==
  /\ NameOk(raw.server.name)
  /\ raw.server.description # ""
  /\ VersionOk(raw.server.version)
  /\ raw.server.status \in Statuses \cup {Absent}
  /\ raw.meta.official.status \in Statuses
  /\ raw.meta.official.isLatest \in BOOLEAN

\* --------------------------------------------------------------- transform
OrNull(v) == IF v = Absent THEN Null ELSE v

\* transformToSubregistryFormat: the NewServer value built from one record
transformToSubregistryFormat(raw) ==
  [publishedAt |-> raw.meta.official.publishedAt,
   isLatest |-> raw.meta.official.isLatest,
   source |-> "official-registry",
   name |-> raw.server.name,
   description |-> raw.server.description,
   status |-> IF raw.server.status = Absent THEN "active" ELSE raw.server.status,
   version |-> IF raw.server.version = <<>> THEN Version100 ELSE raw.server.version,
   repository |-> OrNull(raw.server.repository),
   websiteUrl |-> OrNull(raw.server.websiteUrl),
   packages |-> OrNull(raw.server.packages),
   remotes |-> OrNull(raw.server.remotes),
   publisherMeta |-> Spread(EmptyMap, raw.server.meta),
   parentRegistryMeta |-> raw.meta,
   versionRegistryMeta |-> EmptyMap]

\* ------------------------------------------------------------------ storage
\* row written by INSERT ... VALUES(transformed): column defaults fill
\* visibility, createdAt and updatedAt
InsertedRow(t, at) ==
  [name |-> t.name, version |-> t.version, description |-> t.description,
   status |-> t.status, isLatest |-> t.isLatest, repository |-> t.repository,
   websiteUrl |-> t.websiteUrl, packages |-> t.packages, remotes |-> t.remotes,
   publisherMeta |-> t.publisherMeta,
   parentRegistryMeta |-> t.parentRegistryMeta,
   versionRegistryMeta |-> t.versionRegistryMeta,
   visibility |-> "draft",
   publishedAt |-> ToStoredTime(t.publishedAt),
   source |-> t.source,
   createdAt |-> ToStoredTime(at), updatedAt |-> ToStoredTime(at)]

\* UpdatedRow with SET {...transformed, visibility, updatedAt}: the override
\* that keeps the stored versionRegistryMeta is missing, so the {} of
\* transformed is written
UpdatedRowOverwriting(old, t, at) ==
  [InsertedRow(t, at) EXCEPT !.createdAt = old.createdAt,
                             !.visibility = old.visibility]

\* UpdatedRow as a replacement of the row (INSERT OR REPLACE): the column
\* defaults are applied again
UpdatedRowReplacing(old, t, at) == InsertedRow(t, at)

\* row after ON CONFLICT DO UPDATE SET {...transformed, versionRegistryMeta:
\* servers.versionRegistryMeta, visibility: servers.visibility, updatedAt}
UpdatedRow(old, t, at) ==
  [name |-> t.name, version |-> t.version, description |-> t.description,
   status |-> t.status, isLatest |-> t.isLatest, repository |-> t.repository,
   websiteUrl |-> t.websiteUrl, packages |-> t.packages, remotes |-> t.remotes,
   publisherMeta |-> t.publisherMeta,
   parentRegistryMeta |-> t.parentRegistryMeta,
   versionRegistryMeta |-> old.versionRegistryMeta,
   visibility |-> old.visibility,
   publishedAt |-> ToStoredTime(t.publishedAt),
   source |-> t.source,
   createdAt |-> old.createdAt, updatedAt |-> ToStoredTime(at)]

\* one statement of serverUpserts applied to the servers table
Upsert(srv, t, at) ==
  LET k == <<t.name, t.version>> IN
  IF k \in DOMAIN srv
    THEN [srv EXCEPT ![k] = UpdatedRow(srv[k], t, at)]
    ELSE (k :> InsertedRow(t, at)) @@ srv

\* the statements of serverUpserts applied in order
RECURSIVE ApplyUpserts(_, _, _)
ApplyUpserts(srv, ts, at) ==
  IF ts = <<>> THEN srv
  ELSE ApplyUpserts(Upsert(srv, Head(ts), at), Tail(ts), at)

\* Batch without a transaction, failing after the first upsert: that upsert
\* stays although no log row is written
BatchPartial(log, srv, logRow, ts, at, ok) ==
  IF ok
    THEN [syncLog |-> Append(log, logRow), servers |-> ApplyUpserts(srv, ts, at)]
    ELSE [syncLog |-> log,
          servers |-> IF ts = <<>> THEN srv ELSE Upsert(srv, Head(ts), at)]

\* Batch without a transaction, failing before the last upsert is reached:
\* every upsert but the last stays
BatchTorn(log, srv, logRow, ts, at, ok) ==
  IF ok
    THEN [syncLog |-> Append(log, logRow), servers |-> ApplyUpserts(srv, ts, at)]
    ELSE [syncLog |-> log,
          servers |-> IF ts = <<>> THEN srv
                      ELSE ApplyUpserts(srv, SubSeq(ts, 1, Len(ts) - 1), at)]

\* Batch with the log insert outside the transaction: a rejected batch
\* leaves the success row behind
BatchLogFirst(log, srv, logRow, ts, at, ok) ==
  IF ok
    THEN [syncLog |-> Append(log, logRow), servers |-> ApplyUpserts(srv, ts, at)]
    ELSE [syncLog |-> Append(log, logRow), servers |-> srv]

\* db.batch([syncLogInsert, ...serverUpserts]): one transaction; ok is
\* whether the storage accepts it
Batch(log, srv, logRow, ts, at, ok) ==
  IF ok
    THEN [syncLog |-> Append(log, logRow), servers |-> ApplyUpserts(srv, ts, at)]
    ELSE [syncLog |-> log, servers |-> srv]

\* -------------------------------------------------------------- sync ledger
SuccessTimes(log) ==
  {log[i].syncedAt : i \in {j \in 1..Len(log) :
      log[j].source = "official-registry" /\ log[j].status = "success"}}

\* Watermark without the status = success condition
WatermarkAnyStatus(log) ==
  IF log = <<>> THEN NoWatermark
  ELSE CHOOSE t \in {log[i].syncedAt : i \in 1..Len(log)} :
         \A i \in 1..Len(log) : log[i].syncedAt <= t

\* lastSync?.syncedAt of the newest successful row (ORDER BY syncedAt DESC
\* LIMIT 1)
Watermark(log) ==
  IF SuccessTimes(log) = {} THEN NoWatermark
  ELSE CHOOSE t \in SuccessTimes(log) : \A u \in SuccessTimes(log) : u <= t

\* a sync_log row; id is the autoincrement key, syncedAt the column default;
\* inv is auxiliary: the invocation that wrote the row
LogRow(log, status, processed, message, at, inv) ==
  [id |-> Len(log) + 1, source |-> "official-registry", status |-> status,
   serversProcessed |-> processed, errorMessage |-> message,
   syncedAt |-> ToStoredTime(at), inv |-> inv]

\* ------------------------------------------------------------ upstream pages
NoCursor == <<>>

RECURSIVE SortKeys(_)
SortKeys(S) ==
  IF S = {} THEN <<>>
  ELSE LET m == CHOOSE k \in S : \A j \in S \ {k} : KeyLess(k, j)
       IN <<m>> \o SortKeys(S \ {m})

Take(s, n) == SubSeq(s, 1, IF Len(s) < n THEN Len(s) ELSE n)

\* the upstream answer to GET /v0/servers?updated_since=&cursor= when it
\* cuts its pages at size entries
FeedPageOf(feed, since, cursor, size) ==
  LET match == {k \in DOMAIN feed :
                  /\ since = NoWatermark \/ feed[k].updatedAt >= since
                  /\ cursor = NoCursor \/ KeyLess(cursor, k)}
      keys == SortKeys(match)
      page == Take(keys, size)
  IN [servers |-> [i \in 1..Len(page) |-> RawRecord(page[i], feed[page[i]])],
      nextCursor |-> IF Len(keys) > Len(page) THEN page[Len(page)] ELSE NoCursor]

FeedPage(feed, since, cursor) == FeedPageOf(feed, since, cursor, UpstreamPageSize)

\* -------------------------------------------------------------------- state
VARIABLES
  now,              \* the clock, in ticks
  upstream,         \* the upstream feed: key -> [variant, updatedAt]
  servers,          \* table servers: (name, version) -> row
  packageMetadata,  \* table package_metadata: name -> row
  syncLog,          \* table sync_log: sequence of rows in id order
  invCount,         \* number of sync invocations started so far
  run,              \* per trigger: the state of its syncFromOfficialRegistry call
  patchReq,         \* the PATCH version-metadata request between its two statements
  adminMeta,        \* auxiliary: key -> versionRegistryMeta last written by an admin
  adminVis,         \* auxiliary: key -> visibility last written by an admin
  list,             \* a client's traversal of GET /servers
  lookup,           \* the last point lookup: request and response
  adminResp,        \* the last admin response on record: a 404 or 500, or the
                    \* answer to a request on a package
  pkgPatch          \* per admin client: its last PATCH /servers/:name/metadata

vars == <<now, upstream, servers, packageMetadata, syncLog, invCount, run,
          patchReq, adminMeta, adminVis, list, lookup, adminResp, pkgPatch>>

syncVars == <<now, upstream, servers, syncLog, invCount, run, patchReq,
              adminMeta, adminVis>>

\* the two callers of syncFromOfficialRegistry: the cron trigger and GET /sync
Triggers == {"scheduled", "manual"}

\* an empty servers table
NoRows == [k \in {} |-> 0]

NoResult == [outcome |-> "none", processed |-> 0]

IdleRun ==
  [pc |-> "idle", inv |-> 0, updatedSince |-> NoWatermark, cursor |-> NoCursor,
   allServers |-> <<>>, officialServers |-> <<>>, fetchFailed |-> FALSE,
   overlap |-> {}, result |-> NoResult,
   rawServers |-> <<>>, before |-> NoRows, after |-> NoRows]

NoResponse == [code |-> 0, servers |-> <<>>, count |-> 0, nextCursor |-> <<>>]

\* a client that follows nextCursor: the query parameters it keeps sending,
\* the cursor of its next request, the records received so far, the number
\* of requests made, and the cursor and response of the last request
IdleList ==
  [pc |-> "idle", limit |-> 1, visibility |-> Absent, status |-> Absent,
   cursor |-> <<>>, out |-> <<>>, pages |-> 0, sent |-> <<>>,
   last |-> NoResponse]

\* the admin clients that may have a PATCH /servers/:name/metadata in flight
Clients == {"c1", "c2"}

IdlePkgPatch == [pc |-> "idle", name |-> <<>>, existing |-> EmptyMap, partial |-> EmptyMap]

NoPkgPatch == [c \in Clients |-> IdlePkgPatch]

\* no admin response on record yet
NoAdminResp == [route |-> "none", key |-> <<>>, code |-> 0]

\* no point lookup made yet
NoLookup == [route |-> "none", name |-> <<>>, version |-> <<>>, code |-> 0,
             body |-> Absent]

NoPatch == [pc |-> "idle", key |-> <<>>, existing |-> EmptyMap, partial |-> EmptyMap]

Init ==
  /\ now = 0
  /\ upstream = [k \in {} |-> [variant |-> "full", updatedAt |-> 0]]
  /\ servers = NoRows
  /\ packageMetadata = [n \in {} |-> 0]
  /\ syncLog = <<>>
  /\ invCount = 0
  /\ run = [r \in Triggers |-> IdleRun]
  /\ patchReq = NoPatch
  /\ adminMeta = [k \in {} |-> EmptyMap]
  /\ adminVis = [k \in {} |-> "draft"]
  /\ list = IdleList
  /\ lookup = NoLookup
  /\ adminResp = NoAdminResp
  /\ pkgPatch = NoPkgPatch

\* -------------------------------------------------------------- environment
Tick ==
  /\ now < MaxTime
  /\ now' = now + 1
  /\ UNCHANGED <<upstream, servers, packageMetadata, syncLog, invCount, run,
                 patchReq, adminMeta, adminVis, list, lookup, adminResp, pkgPatch>>

\* the upstream registry publishes or changes an entry; it stamps updatedAt
UpstreamPublish(k, v) ==
  /\ IF k \in DOMAIN upstream THEN upstream[k].variant # v ELSE TRUE
  /\ upstream' = (k :> [variant |-> v, updatedAt |-> now]) @@ upstream
  /\ UNCHANGED <<now, servers, packageMetadata, syncLog, invCount, run,
                 patchReq, adminMeta, adminVis, list, lookup, adminResp, pkgPatch>>

\* ------------------------------------------------- syncFromOfficialRegistry
\* lines 20-39: read the watermark, enter fetchOfficialMCPRegistry
StartSync(r) ==
  /\ run[r].pc = "idle"
  /\ invCount < MaxInvocations
  /\ invCount' = invCount + 1
  /\ run' = [run EXCEPT ![r] =
       [IdleRun EXCEPT !.pc = "fetching", !.inv = invCount + 1,
                       !.updatedSince = Watermark(syncLog)]]
  /\ UNCHANGED <<now, upstream, servers, packageMetadata, syncLog, patchReq,
                 adminMeta, adminVis, list, lookup, adminResp, pkgPatch>>

\* lines 24-34 throw (the storage rejects the select): control goes to the catch
StartSyncFails(r) ==
  /\ run[r].pc = "idle"
  /\ invCount < MaxInvocations
  /\ invCount' = invCount + 1
  /\ run' = [run EXCEPT ![r] =
       [IdleRun EXCEPT !.pc = "catch", !.inv = invCount + 1]]
  /\ UNCHANGED <<now, upstream, servers, packageMetadata, syncLog, patchReq,
                 adminMeta, adminVis, list, lookup, adminResp, pkgPatch>>

\* ValidServers parsing the page as a whole: one invalid record and the
\* page yields nothing
ValidServersWholePage(rawServers) ==
  IF \A i \in 1..Len(rawServers) : IsValidRecord(rawServers[i])
    THEN rawServers ELSE <<>>

\* lines 145-188: the records of a page that pass safeParse, in page order
ValidServers(rawServers) == SelectSeq(rawServers, IsValidRecord)

\* FetchPageOf leaving the loop after its first page, whatever nextCursor is
FetchPageOfOnce(r, size) ==
  /\ run[r].pc = "fetching"
  /\ LET resp == FeedPageOf(upstream, run[r].updatedSince, run[r].cursor, size)
         validServers == ValidServers(resp.servers)
         all == run[r].allServers \o validServers
         raw == run[r].rawServers \o resp.servers
     IN run' = [run EXCEPT ![r] =
                  [@ EXCEPT !.pc = "fetched", !.allServers = all,
                            !.cursor = NoCursor, !.officialServers = all,
                            !.rawServers = raw]]
  /\ UNCHANGED <<now, upstream, servers, packageMetadata, syncLog, invCount,
                 patchReq, adminMeta, adminVis, list, lookup, adminResp, pkgPatch>>

\* one iteration of the do-while loop whose request succeeds, the upstream
\* cutting its pages at size entries; rawServers is auxiliary: every record
\* received so far, valid or not
FetchPageOf(r, size) ==
  /\ run[r].pc = "fetching"
  /\ LET resp == FeedPageOf(upstream, run[r].updatedSince, run[r].cursor, size)
         validServers == ValidServers(resp.servers)
         all == run[r].allServers \o validServers
         raw == run[r].rawServers \o resp.servers
     IN run' = [run EXCEPT ![r] =
          IF resp.nextCursor = NoCursor
            THEN [@ EXCEPT !.pc = "fetched", !.allServers = all,
                           !.cursor = NoCursor, !.officialServers = all,
                           !.rawServers = raw]
            ELSE [@ EXCEPT !.allServers = all, !.cursor = resp.nextCursor,
                           !.rawServers = raw]]
  /\ UNCHANGED <<now, upstream, servers, packageMetadata, syncLog, invCount,
                 patchReq, adminMeta, adminVis, list, lookup, adminResp, pkgPatch>>

FetchPage(r) == FetchPageOf(r, UpstreamPageSize)

\* FetchPageFails returning from the catch the records collected so far
FetchPageFailsKeepingPages(r) ==
  /\ run[r].pc = "fetching"
  /\ run' = [run EXCEPT ![r] =
       [@ EXCEPT !.pc = "fetched", !.officialServers = run[r].allServers,
                 !.fetchFailed = TRUE]]
  /\ UNCHANGED <<now, upstream, servers, packageMetadata, syncLog, invCount,
                 patchReq, adminMeta, adminVis, list, lookup, adminResp, pkgPatch>>

\* one iteration whose request fails (transport error or !response.ok): the
\* throw is caught at line 198 and fetchOfficialMCPRegistry returns []
FetchPageFails(r) ==
  /\ run[r].pc = "fetching"
  /\ run' = [run EXCEPT ![r] =
       [@ EXCEPT !.pc = "fetched", !.officialServers = <<>>, !.fetchFailed = TRUE]]
  /\ UNCHANGED <<now, upstream, servers, packageMetadata, syncLog, invCount,
                 patchReq, adminMeta, adminVis, list, lookup, adminResp, pkgPatch>>

Transformed(r) ==
  [i \in 1..Len(run[r].officialServers) |->
      transformToSubregistryFormat(run[r].officialServers[i])]

\* lines 41-71: transform, build the upserts and the success row, db.batch.
\* ok = FALSE is the batch rejected by the storage: control goes to the catch.
\* With note, the run keeps as auxiliary values the table as it was before
\* the batch and as the whole batch makes it
CommitBatchOf(r, ok, note) ==
  /\ run[r].pc = "fetched"
  /\ LET ts == Transformed(r)
         row == LogRow(syncLog, "success", Len(ts), Null, now, run[r].inv)
         b == Batch(syncLog, servers, row, ts, now, ok)
     IN /\ syncLog' = b.syncLog
        /\ servers' = b.servers
        /\ run' = [run EXCEPT ![r] =
             IF ok
               THEN [@ EXCEPT !.pc = "done",
                              !.result = [outcome |-> "success", processed |-> Len(ts)],
                              !.before = IF note THEN servers ELSE NoRows,
                              !.after = IF note THEN ApplyUpserts(servers, ts, now)
                                        ELSE NoRows]
               ELSE [@ EXCEPT !.pc = "catch",
                              !.before = IF note THEN servers ELSE NoRows,
                              !.after = IF note THEN ApplyUpserts(servers, ts, now)
                                        ELSE NoRows]]
  /\ UNCHANGED <<now, upstream, packageMetadata, invCount, patchReq,
                 adminMeta, adminVis, list, lookup, adminResp, pkgPatch>>

CommitBatch(r, ok) == CommitBatchOf(r, ok, FALSE)

\* lines 72-88: the catch block; ok = FALSE is the insert of the failure row
\* rejected as well, so the call throws
LogFailure(r, ok) ==
  /\ run[r].pc = "catch"
  /\ syncLog' = IF ok
       THEN Append(syncLog, LogRow(syncLog, "failure", 0, "storage error", now, run[r].inv))
       ELSE syncLog
  /\ run' = [run EXCEPT ![r] =
       [@ EXCEPT !.pc = "done",
                 !.result = [outcome |-> IF ok THEN "failure" ELSE "thrown",
                             processed |-> 0]]]
  /\ UNCHANGED <<now, upstream, servers, packageMetadata, invCount, patchReq,
                 adminMeta, adminVis, list, lookup, adminResp, pkgPatch>>

\* the caller (GET /sync or the cron handler) has the result
Return(r) ==
  /\ run[r].pc = "done"
  /\ run' = [run EXCEPT ![r] = IdleRun]
  /\ UNCHANGED <<now, upstream, servers, packageMetadata, syncLog, invCount,
                 patchReq, adminMeta, adminVis, list, lookup, adminResp, pkgPatch>>

\* what the caller of a finished run ends with. GET /sync answers 200 with
\* success = true, 500 with success = false for a failure result, and its own
\* catch turns a throw into 500 with success = false as well; the cron
\* handler passes sync.then(...) to ctx.waitUntil without a catch, so a throw
\* is an unhandled rejection
CallerOutcome(r) ==
  LET outcome == run[r].result.outcome IN
  IF r = "manual"
    THEN [kind |-> "response", code |-> IF outcome = "success" THEN 200 ELSE 500,
          success |-> outcome = "success"]
    ELSE [kind |-> IF outcome = "thrown" THEN "unhandled rejection" ELSE "resolved",
          code |-> 0, success |-> outcome = "success"]

\* -------------------------------------------------------------- admin routes
\* request bodies the admin sends
PutBodies == {("pa" :> "adm")}
PatchBodies == {("vb" :> "adm2")}

BatchKeys(r) ==
  {<<Transformed(r)[i].name, Transformed(r)[i].version>> :
      i \in 1..Len(run[r].officialServers)}

\* auxiliary: note in every run that has fetched and not yet committed that
\* an admin wrote key k meanwhile
NoteOverlap(k) ==
  [r \in Triggers |->
     IF run[r].pc = "fetched" /\ k \in BatchKeys(r)
       THEN [run[r] EXCEPT !.overlap = @ \cup {k}]
       ELSE run[r]]

\* UPDATE servers SET versionRegistryMeta = m, updatedAt = now WHERE key = k
SetVersionMeta(srv, k, m, at) ==
  [srv EXCEPT ![k] = [@ EXCEPT !.versionRegistryMeta = m,
                               !.updatedAt = ToStoredTime(at)]]

\* UPDATE servers SET visibility = v, updatedAt = now WHERE key = k
SetVersionVisibility(srv, k, v, at) ==
  [srv EXCEPT ![k] = [@ EXCEPT !.visibility = v,
                               !.updatedAt = ToStoredTime(at)]]

\* PUT /servers/:name/versions/:version/metadata on a stored version
AdminPutVersionMeta(k, m) ==
  /\ k \in DOMAIN servers
  /\ servers' = SetVersionMeta(servers, k, m, now)
  /\ adminMeta' = (k :> m) @@ adminMeta
  /\ run' = NoteOverlap(k)
  /\ UNCHANGED <<now, upstream, packageMetadata, syncLog, invCount, patchReq,
                 adminVis, list, lookup, adminResp, pkgPatch>>

\* PATCH /servers/:name/versions/:version/metadata, first statement: read
AdminPatchVersionMetaRead(k, partial) ==
  /\ patchReq.pc = "idle"
  /\ k \in DOMAIN servers
  /\ patchReq' = [pc |-> "read", key |-> k,
                  existing |-> servers[k].versionRegistryMeta,
                  partial |-> partial]
  /\ UNCHANGED <<now, upstream, servers, packageMetadata, syncLog, invCount,
                 run, adminMeta, adminVis, list, lookup, adminResp, pkgPatch>>

\* PATCH ..., second statement: write the merge of what was read
AdminPatchVersionMetaWrite ==
  /\ patchReq.pc = "read"
  /\ LET m == Spread(patchReq.existing, patchReq.partial)
     IN /\ servers' = SetVersionMeta(servers, patchReq.key, m, now)
        /\ adminMeta' = (patchReq.key :> m) @@ adminMeta
  /\ run' = NoteOverlap(patchReq.key)
  /\ patchReq' = NoPatch
  /\ UNCHANGED <<now, upstream, packageMetadata, syncLog, invCount,
                 adminVis, list, lookup, adminResp, pkgPatch>>

\* DELETE /servers/:name/versions/:version/metadata on a stored version
AdminDeleteVersionMeta(k) ==
  /\ k \in DOMAIN servers
  /\ servers[k].versionRegistryMeta # EmptyMap
  /\ servers' = SetVersionMeta(servers, k, EmptyMap, now)
  /\ adminMeta' = (k :> EmptyMap) @@ adminMeta
  /\ run' = NoteOverlap(k)
  /\ UNCHANGED <<now, upstream, packageMetadata, syncLog, invCount, patchReq,
                 adminVis, list, lookup, adminResp, pkgPatch>>

\* PATCH /servers/:name/versions/:version/visibility on a stored version
AdminPatchVersionVisibility(k, v) ==
  /\ k \in DOMAIN servers
  /\ servers[k].visibility # v
  /\ servers' = SetVersionVisibility(servers, k, v, now)
  /\ adminVis' = (k :> v) @@ adminVis
  /\ run' = NoteOverlap(k)
  /\ UNCHANGED <<now, upstream, packageMetadata, syncLog, invCount, patchReq,
                 adminMeta, list, lookup, adminResp, pkgPatch>>

\* PUT /servers/:name/versions/:version/metadata on a version that the
\* SELECT does not find (lines 1324-1347): 404, nothing written
AdminPutVersionMetaNotFound(k, m) ==
  /\ k \notin DOMAIN servers
  /\ adminResp' = [route |-> "put version metadata", key |-> k, code |-> 404]
  /\ UNCHANGED <<now, upstream, servers, packageMetadata, syncLog, invCount,
                 run, patchReq, adminMeta, adminVis, list, lookup, pkgPatch>>

\* PATCH /servers/:name/versions/:version/visibility on a version that the
\* SELECT does not find (lines 1584-1602): 404, nothing written
AdminPatchVersionVisibilityNotFound(k, v) ==
  /\ k \notin DOMAIN servers
  /\ adminResp' = [route |-> "patch version visibility", key |-> k, code |-> 404]
  /\ UNCHANGED <<now, upstream, servers, packageMetadata, syncLog, invCount,
                 run, patchReq, adminMeta, adminVis, list, lookup, pkgPatch>>

\* PATCH /servers/:name/versions/:version/metadata on a version that the
\* SELECT does not find (lines 1410-1429): 404, nothing written
AdminPatchVersionMetaNotFound(k, partial) ==
  /\ patchReq.pc = "idle"
  /\ k \notin DOMAIN servers
  /\ adminResp' = [route |-> "patch version metadata", key |-> k, code |-> 404]
  /\ UNCHANGED <<now, upstream, servers, packageMetadata, syncLog, invCount,
                 run, patchReq, adminMeta, adminVis, list, lookup, pkgPatch>>

\* INSERT INTO package_metadata ... ON CONFLICT (name) DO UPDATE SET
\* registryMeta = m, updatedAt = now; a new row takes the column defaults
UpsertPackageMeta(pkgs, n, m, at) ==
  IF n \in DOMAIN pkgs
    THEN [pkgs EXCEPT ![n] = [@ EXCEPT !.registryMeta = m,
                                       !.updatedAt = ToStoredTime(at)]]
    ELSE (n :> [name |-> n, registryMeta |-> m, visibility |-> "draft",
                createdAt |-> ToStoredTime(at),
                updatedAt |-> ToStoredTime(at)]) @@ pkgs

\* INSERT INTO package_metadata ... ON CONFLICT (name) DO UPDATE SET
\* visibility = v, updatedAt = now; a new row takes the column defaults
UpsertPackageVisibility(pkgs, n, v, at) ==
  IF n \in DOMAIN pkgs
    THEN [pkgs EXCEPT ![n] = [@ EXCEPT !.visibility = v,
                                       !.updatedAt = ToStoredTime(at)]]
    ELSE (n :> [name |-> n, registryMeta |-> EmptyMap, visibility |-> v,
                createdAt |-> ToStoredTime(at),
                updatedAt |-> ToStoredTime(at)]) @@ pkgs

\* a delete that empties registryMeta and keeps the row
DeletePackageRowKeepingVisibility(pkgs, n) ==
  IF n \in DOMAIN pkgs
    THEN [pkgs EXCEPT ![n] = [@ EXCEPT !.registryMeta = EmptyMap]]
    ELSE pkgs

\* DELETE FROM package_metadata WHERE name = n
DeletePackageRow(pkgs, n) == [j \in DOMAIN pkgs \ {n} |-> pkgs[j]]

\* PUT /servers/:name/metadata
AdminPutPackageMeta(n, m) ==
  /\ packageMetadata' = UpsertPackageMeta(packageMetadata, n, m, now)
  /\ adminResp' = [route |-> "put package metadata", key |-> <<n>>, code |-> 200]
  /\ UNCHANGED <<syncVars, list, lookup, pkgPatch>>

\* PATCH /servers/:name/metadata, first statement: read the row, 404 without it
AdminPatchPackageMetaRead(c, n, partial) ==
  /\ pkgPatch[c].pc # "read"
  /\ IF n \in DOMAIN packageMetadata
       THEN /\ pkgPatch' = [pkgPatch EXCEPT ![c] =
                              [pc |-> "read", name |-> n,
                               existing |-> packageMetadata[n].registryMeta,
                               partial |-> partial]]
            /\ UNCHANGED adminResp
       ELSE /\ adminResp' = [route |-> "patch package metadata",
                           key |-> <<n>>, code |-> 404]
            /\ UNCHANGED pkgPatch
  /\ UNCHANGED <<syncVars, packageMetadata, list, lookup>>

\* PATCH /servers/:name/metadata, second statement: write the merge of what
\* was read to the row, if it is still there
AdminPatchPackageMetaWrite(c) ==
  /\ pkgPatch[c].pc = "read"
  /\ LET n == pkgPatch[c].name
         m == Spread(pkgPatch[c].existing, pkgPatch[c].partial)
     IN packageMetadata' =
          IF n \in DOMAIN packageMetadata
            THEN UpsertPackageMeta(packageMetadata, n, m, now)
            ELSE packageMetadata
  /\ pkgPatch' = [pkgPatch EXCEPT ![c].pc = "done"]
  /\ UNCHANGED <<syncVars, list, lookup, adminResp>>

\* DELETE /servers/:name/metadata
AdminDeletePackageMeta(n) ==
  /\ packageMetadata' = DeletePackageRow(packageMetadata, n)
  /\ adminResp' = [route |-> "delete package metadata", key |-> <<n>>, code |-> 200]
  /\ UNCHANGED <<syncVars, list, lookup, pkgPatch>>

\* PATCH /servers/:name/visibility
AdminPatchPackageVisibility(n, v) ==
  /\ packageMetadata' = UpsertPackageVisibility(packageMetadata, n, v, now)
  /\ adminResp' = [route |-> "patch package visibility", key |-> <<n>>, code |-> 200]
  /\ UNCHANGED <<syncVars, list, lookup, pkgPatch>>

\* ----------------------------------------------------------------- read API
\* value of a hexadecimal digit, -1 for any other character
HexVal(c) ==
  IF c \in 48..57 THEN c - 48
  ELSE IF c \in 65..70 THEN c - 55
  ELSE IF c \in 97..102 THEN c - 87
  ELSE -1

HexDigit(n) == IF n < 10 THEN 48 + n ELSE 55 + n

\* characters encodeURIComponent leaves alone: A-Z a-z 0-9 - _ . ! ~ * ' ( )
IsUnreserved(c) == IsAlnum(c) \/ c \in {45, 95, 46, 33, 126, 42, 39, 40, 41}

\* encodeURIComponent on a string of ASCII characters
RECURSIVE EncodeURIComponent(_)
EncodeURIComponent(s) ==
  IF s = <<>> THEN <<>>
  ELSE (IF IsUnreserved(Head(s)) THEN <<Head(s)>>
        ELSE <<Ascii.pct, HexDigit(Head(s) \div 16), HexDigit(Head(s) % 16)>>)
       \o EncodeURIComponent(Tail(s))

\* decodeURIComponent: ok = FALSE is the URIError thrown for a "%" that is
\* not followed by two hexadecimal digits, or for an escape of a byte above
\* 127 that does not start a well-formed UTF-8 sequence (the strings of this
\* model hold no such sequence)
RECURSIVE DecodeURIComponent(_)
DecodeURIComponent(s) ==
  IF s = <<>> THEN [ok |-> TRUE, value |-> <<>>]
  ELSE IF Head(s) # Ascii.pct THEN
    LET rest == DecodeURIComponent(Tail(s))
    IN [ok |-> rest.ok, value |-> <<Head(s)>> \o rest.value]
  ELSE IF Len(s) < 3 \/ HexVal(s[2]) < 0 \/ HexVal(s[3]) < 0
            \/ 16 * HexVal(s[2]) + HexVal(s[3]) > 127 THEN
    [ok |-> FALSE, value |-> <<>>]
  ELSE
    LET rest == DecodeURIComponent(SubSeq(s, 4, Len(s)))
    IN [ok |-> rest.ok,
        value |-> <<16 * HexVal(s[2]) + HexVal(s[3])>> \o rest.value]

\* s.split(":")
RECURSIVE SplitColon(_)
SplitColon(s) ==
  IF \A i \in 1..Len(s) : s[i] # Ascii.colon THEN <<s>>
  ELSE LET i == CHOOSE j \in 1..Len(s) :
                  s[j] = Ascii.colon /\ \A h \in 1..(j - 1) : s[h] # Ascii.colon
       IN <<SubSeq(s, 1, i - 1)>> \o SplitColon(SubSeq(s, i + 1, Len(s)))

\* `${name}:${version}`
CursorOf(k) == k[1] \o <<Ascii.colon>> \o k[2]

\* lines 264-266: ok = FALSE when decodeURIComponent throws or the storage
\* rejects the undefined cursorVersion of a cursor without ":"
DecodeCursor(cursor) ==
  LET d == DecodeURIComponent(cursor)
      parts == IF d.ok THEN SplitColon(d.value) ELSE <<>>
  IN IF d.ok /\ Len(parts) >= 2
       THEN [ok |-> TRUE, name |-> parts[1], version |-> parts[2]]
       ELSE [ok |-> FALSE, name |-> <<>>, version |-> <<>>]

\* FilterMatches with the visibility condition on the version or the package
FilterMatchesEither(row, pkgs, visibility, status) ==
  /\ visibility \in Visibilities =>
       \/ row.name \in DOMAIN pkgs /\ pkgs[row.name].visibility = visibility
       \/ visibility = "draft" /\ row.name \notin DOMAIN pkgs
       \/ row.visibility = visibility
  /\ status \in Statuses => row.status = status

\* FilterMatches with the visibility condition on the version only
FilterMatchesVersionOnly(row, pkgs, visibility, status) ==
  /\ visibility \in Visibilities => row.visibility = visibility
  /\ status \in Statuses => row.status = status

\* the visibility and status conditions of the WHERE clause on a row joined
\* with its package_metadata row (LEFT JOIN: NULL columns when there is none)
FilterMatches(row, pkgs, visibility, status) ==
  /\ visibility \in Visibilities =>
       /\ \/ row.name \in DOMAIN pkgs /\ pkgs[row.name].visibility = visibility
          \/ visibility = "draft" /\ row.name \notin DOMAIN pkgs
       /\ row.visibility = visibility
  /\ status \in Statuses => row.status = status

\* gt(name, cursorName) OR (eq(name, cursorName) AND gt(version, cursorVersion))
AfterCursor(k, c) ==
  \/ StrLess(c.name, k[1])
  \/ k[1] = c.name /\ StrLess(c.version, k[2])

\* toServerJson spreading the package layer after the version layer
toServerJsonPackageLast(server, pkgs) ==
  [server |-> [name |-> server.name, description |-> server.description,
               version |-> server.version,
               repository |-> IF server.repository = Null THEN Absent ELSE server.repository,
               websiteUrl |-> IF server.websiteUrl = Null THEN Absent ELSE server.websiteUrl,
               packages |-> IF server.packages = Null THEN Absent ELSE server.packages,
               remotes |-> IF server.remotes = Null THEN Absent ELSE server.remotes,
               meta |-> server.publisherMeta],
   meta |-> Spread(Spread(server.parentRegistryMeta, server.versionRegistryMeta),
                   IF server.name \in DOMAIN pkgs
                     THEN pkgs[server.name].registryMeta ELSE EmptyMap)]

\* toServerJson
toServerJson(server, pkgs) ==
  [server |-> [name |-> server.name, description |-> server.description,
               version |-> server.version,
               repository |-> IF server.repository = Null THEN Absent ELSE server.repository,
               websiteUrl |-> IF server.websiteUrl = Null THEN Absent ELSE server.websiteUrl,
               packages |-> IF server.packages = Null THEN Absent ELSE server.packages,
               remotes |-> IF server.remotes = Null THEN Absent ELSE server.remotes,
               meta |-> server.publisherMeta],
   meta |-> Spread(Spread(server.parentRegistryMeta,
                          IF server.name \in DOMAIN pkgs
                            THEN pkgs[server.name].registryMeta ELSE EmptyMap),
                   server.versionRegistryMeta)]

\* PageOf that builds the cursor from the extra row
PageOfExtraRow(results, limitNum) ==
  LET hasMore == Len(results) > limitNum
      rowsToReturn == IF hasMore THEN SubSeq(results, 1, limitNum) ELSE results
  IN [rows |-> rowsToReturn,
      nextCursor |-> IF hasMore THEN CursorOf(results[Len(results)]) ELSE <<>>]

\* lines 289-298: drop the extra row, build nextCursor (<<>> is null)
PageOf(results, limitNum) ==
  LET hasMore == Len(results) > limitNum
      rowsToReturn == IF hasMore THEN SubSeq(results, 1, limitNum) ELSE results
  IN [rows |-> rowsToReturn,
      nextCursor |-> IF hasMore
                       THEN CursorOf(rowsToReturn[Len(rowsToReturn)])
                       ELSE <<>>]

\* what the handler finds in c.req.valid("query").cursor when the client
\* sent the string s URL-encoded
QueryParam(s) == DecodeURIComponent(EncodeURIComponent(s)).value

\* GET /servers: the response to a request with these query parameters
\* (cursor = <<>> is a request without cursor)
ListServers(srv, pkgs, limit, cursor, visibility, status) ==
  LET c == DecodeCursor(cursor)
      keys == {k \in DOMAIN srv :
                 /\ FilterMatches(srv[k], pkgs, visibility, status)
                 /\ cursor # <<>> => AfterCursor(k, c)}
      results == Take(SortKeys(keys), limit + 1)
      page == PageOf(results, limit)
  IN IF cursor # <<>> /\ ~c.ok
       THEN [code |-> 500, servers |-> <<>>, count |-> 0, nextCursor |-> <<>>]
       ELSE [code |-> 200,
             servers |-> [i \in 1..Len(page.rows) |->
                            toServerJson(srv[page.rows[i]], pkgs)],
             count |-> Len(page.rows),
             nextCursor |-> page.nextCursor]

\* ------------------------------------------------------------ specification
SyncStep ==
  \E r \in Triggers :
    \/ StartSync(r)
    \/ StartSyncFails(r)
    \/ FetchPage(r)
    \/ FetchPageFails(r)
    \/ \E ok \in BOOLEAN : CommitBatch(r, ok)
    \/ \E ok \in BOOLEAN : LogFailure(r, ok)
    \/ Return(r)

\* the version the admin curates and the feed keeps changing in the
\* field-ownership model
OwnKeys == {<<NameAX, Version1>>}

AdminStep ==
  \E k \in OwnKeys :
    \/ \E m \in PutBodies : AdminPutVersionMeta(k, m)
    \/ \E m \in PatchBodies : AdminPatchVersionMetaRead(k, m)
    \/ AdminPatchVersionMetaWrite
    \/ AdminDeleteVersionMeta(k)
    \/ \E v \in Visibilities : AdminPatchVersionVisibility(k, v)

\* a valid and an invalid entry
PlainVariants == {"full", "bad"}

PublishStep == \E k \in FeedKeys, v \in PlainVariants : UpstreamPublish(k, v)

Next == SyncStep \/ PublishStep

Spec == Init /\ [][Next]_vars

\* the field-ownership model: runs of both triggers, admin writes between any
\* two of their steps, the feed changing at any moment
OwnSyncStep ==
  \E r \in Triggers :
    \/ StartSync(r)
    \/ FetchPage(r)
    \/ CommitBatch(r, TRUE)
    \/ Return(r)

OwnPublishStep == \E k \in OwnKeys, v \in FeedVariants : UpstreamPublish(k, v)

NextOwn == OwnSyncStep \/ AdminStep \/ OwnPublishStep

SpecOwn == Init /\ [][NextOwn]_vars

\* the sequential model: one run at a time, no request and no statement
\* fails, the clock runs and the feed changes at any moment
SeqSyncStep ==
  \E r \in Triggers :
    \/ (\A q \in Triggers : run[q].pc = "idle") /\ StartSync(r)
    \/ FetchPage(r)
    \/ CommitBatch(r, TRUE)
    \/ Return(r)

NextSeq == SeqSyncStep \/ PublishStep \/ Tick

SpecSeq == Init /\ [][NextSeq]_vars

\* ------------------------------------------------------------------- claims
RowsOf(inv) == {i \in 1..Len(syncLog) : syncLog[i].inv = inv}

KeyOf(t) == <<t.name, t.version>>

\* the step of run r that leaves line 69 (the batch committed or was rejected)
BatchStep(r) == run[r].pc = "fetched" /\ run'[r].pc # "fetched"

\* C1: every stored row holds, as versionRegistryMeta and as visibility, what
\* the last admin write to it set, or {} and "draft" when no admin has written
\* it, whatever runs and feed changes happened in between
C1_FieldOwnership ==
  \A k \in DOMAIN servers :
    /\ servers[k].versionRegistryMeta =
         (IF k \in DOMAIN adminMeta THEN adminMeta[k] ELSE EmptyMap)
    /\ servers[k].visibility =
         (IF k \in DOMAIN adminVis THEN adminVis[k] ELSE "draft")

\* a run has committed an upsert of a row that an admin wrote (metadata and
\* visibility) between that run's fetch and its commit
C1_Witness ==
  \E r \in Triggers :
    /\ run[r].pc = "done"
    /\ run[r].result.outcome = "success"
    /\ \E k \in run[r].overlap :
         /\ k \in DOMAIN adminMeta /\ adminMeta[k] # EmptyMap
         /\ k \in DOMAIN adminVis /\ adminVis[k] = "published"
         /\ servers[k].versionRegistryMeta = adminMeta[k]

\* what the feed reports for a record, column by column
FetchedColumns(raw) ==
  [description |-> raw.server.description,
   status |-> raw.meta.official.status,
   isLatest |-> raw.meta.official.isLatest,
   repository |-> OrNull(raw.server.repository),
   websiteUrl |-> OrNull(raw.server.websiteUrl),
   packages |-> OrNull(raw.server.packages),
   remotes |-> OrNull(raw.server.remotes),
   publisherMeta |-> raw.server.meta,
   parentRegistryMeta |-> raw.meta,
   publishedAt |-> raw.meta.official.publishedAt]

UpstreamColumns(row) ==
  [description |-> row.description, status |-> row.status,
   isLatest |-> row.isLatest, repository |-> row.repository,
   websiteUrl |-> row.websiteUrl, packages |-> row.packages,
   remotes |-> row.remotes, publisherMeta |-> row.publisherMeta,
   parentRegistryMeta |-> row.parentRegistryMeta,
   publishedAt |-> row.publishedAt]

\* C2: a commit of a fetched record whose key is already stored leaves every
\* upstream-owned column of the row equal to the freshly fetched value
C2_FullReplace ==
  [][\A r \in Triggers :
       (run[r].pc = "fetched" /\ run'[r].pc = "done") =>
          \A i \in 1..Len(run[r].officialServers) :
             LET raw == run[r].officialServers[i]
                 k == KeyOf(transformToSubregistryFormat(raw))
             IN k \in DOMAIN servers =>
                  UpstreamColumns(servers'[k]) = FetchedColumns(raw)]_vars

\* C3: a run with a failed page request ends as a failure: its caller gets
\* success = false and its only sync_log row has status failure
C3_FetchFailureIsFailure ==
  \A r \in Triggers :
    (run[r].pc = "done" /\ run[r].fetchFailed) =>
       /\ run[r].result.outcome = "failure"
       /\ Cardinality(RowsOf(run[r].inv)) = 1
       /\ \A i \in RowsOf(run[r].inv) : syncLog[i].status = "failure"

\* C4: the step that ends a run whose fetch failed leaves the watermark as it
\* was, so the next run reads what the failed run read
C4_FailedFetchKeepsWatermark ==
  [][\A r \in Triggers :
       (BatchStep(r) /\ run[r].fetchFailed) =>
          Watermark(syncLog') = Watermark(syncLog)]_vars

\* the columns a commit of raw writes (as the code derives them)
WrittenColumns(raw) ==
  UpstreamColumns(InsertedRow(transformToSubregistryFormat(raw), 0))

\* C5: with runs one at a time, whenever no run is active every valid feed
\* entry that changed before the watermark is stored with its current
\* contents: no change lies before the watermark unfetched
C5_NothingBeforeWatermarkMissed ==
  (\A r \in Triggers : run[r].pc = "idle") =>
     \A k \in DOMAIN upstream :
        LET raw == RawRecord(k, upstream[k]) IN
        (IsValidRecord(raw) /\ upstream[k].updatedAt < Watermark(syncLog)) =>
           /\ k \in DOMAIN servers
           /\ UpstreamColumns(servers[k]) = WrittenColumns(raw)

HasSuccessRow(log, inv) ==
  \E i \in 1..Len(log) : log[i].inv = inv /\ log[i].status = "success"

IsPersisted(srv, t) ==
  /\ KeyOf(t) \in DOMAIN srv
  /\ srv[KeyOf(t)].description = t.description
  /\ srv[KeyOf(t)].parentRegistryMeta = t.parentRegistryMeta

\* C6: the step that runs the batch of run r either persists the success row
\* and every upsert, or changes neither table
C6_BatchAllOrNothing ==
  [][\A r \in Triggers :
       BatchStep(r) =>
          \/ /\ HasSuccessRow(syncLog', run[r].inv)
             /\ \A i \in 1..Len(run[r].officialServers) :
                  IsPersisted(servers', Transformed(r)[i])
          \/ /\ ~HasSuccessRow(syncLog', run[r].inv)
             /\ syncLog' = syncLog
             /\ servers' = servers]_vars

\* a batch of two upserts and the success row has committed
C6_Witness ==
  \E r \in Triggers :
    /\ run[r].pc = "done"
    /\ run[r].result.outcome = "success"
    /\ run[r].result.processed = 2
    /\ HasSuccessRow(syncLog, run[r].inv)
    /\ \A i \in 1..2 : IsPersisted(servers, Transformed(r)[i])

VersionColon == <<Ascii.d1, Ascii.colon, Ascii.d2>>
VersionPct == <<Ascii.pct>>

\* the versions the store can hold in the list model: all pass validation
ListKeys ==
  {<<NameAX, Version1>>, <<NameAX, VersionColon>>, <<NameAX, Version2>>,
   <<NameAY, VersionPct>>}

ListNames == {NameAX, NameAY}

\* visibility and status of a stored row in the list model
RowKinds == {"draft", "published", "retired"}

ListRow(k, kind) ==
  [InsertedRow(transformToSubregistryFormat(
                 RawRecord(k, [variant |-> "full", updatedAt |-> 0])), 0)
     EXCEPT !.visibility = IF kind = "draft" THEN "draft" ELSE "published",
            !.status = IF kind = "retired" THEN "deprecated" ELSE "active"]

\* a package_metadata row as PATCH /servers/:name/visibility inserts it
PackageRow(n, v) ==
  [name |-> n, registryMeta |-> EmptyMap, visibility |-> v,
   createdAt |-> 0, updatedAt |-> 0]

InitList ==
  /\ now = 0
  /\ upstream = [k \in {} |-> [variant |-> "full", updatedAt |-> 0]]
  /\ \E f \in [ListKeys -> RowKinds \cup {"none"}] :
       servers = [k \in {j \in ListKeys : f[j] # "none"} |-> ListRow(k, f[k])]
  /\ \E g \in [ListNames -> Visibilities \cup {"none"}] :
       packageMetadata =
         [n \in {m \in ListNames : g[m] # "none"} |-> PackageRow(n, g[n])]
  /\ syncLog = <<>>
  /\ invCount = 0
  /\ run = [r \in Triggers |-> IdleRun]
  /\ patchReq = NoPatch
  /\ adminMeta = [k \in {} |-> EmptyMap]
  /\ adminVis = [k \in {} |-> "draft"]
  /\ list = IdleList
  /\ lookup = NoLookup
  /\ adminResp = NoAdminResp
  /\ pkgPatch = NoPkgPatch

JsonKey(j) == <<j.server.name, j.server.version>>

\* the client starts a traversal: first request without cursor
StartTraversal(limit, visibility, status) ==
  /\ list.pc = "idle"
  /\ list' = [IdleList EXCEPT !.pc = "paging", !.limit = limit,
                              !.visibility = visibility, !.status = status]
  /\ UNCHANGED syncVars
  /\ UNCHANGED <<packageMetadata, lookup, adminResp, pkgPatch>>

\* one GET /servers request of the traversal and its response
ListRequest ==
  /\ list.pc = "paging"
  /\ list.pages < MaxPages
  /\ LET resp == ListServers(servers, packageMetadata, list.limit,
                             QueryParam(list.cursor), list.visibility,
                             list.status)
     IN list' = [list EXCEPT
          !.pages = @ + 1,
          !.sent = list.cursor,
          !.last = resp,
          !.out = @ \o [i \in 1..Len(resp.servers) |-> JsonKey(resp.servers[i])],
          !.cursor = resp.nextCursor,
          !.pc = IF resp.code # 200 THEN "error"
                 ELSE IF resp.nextCursor = <<>> THEN "done" ELSE "paging"]
  /\ UNCHANGED syncVars
  /\ UNCHANGED <<packageMetadata, lookup, adminResp, pkgPatch>>

NextList ==
  \/ \E limit \in 1..MaxLimit, visibility \in Visibilities \cup {Absent},
        status \in {"active", "deprecated", Absent} :
          StartTraversal(limit, visibility, status)
  \/ ListRequest

SpecList == InitList /\ [][NextList]_vars

\* the stored keys that pass the filters of the traversal
MatchingKeys ==
  {k \in DOMAIN servers :
     FilterMatches(servers[k], packageMetadata, list.visibility, list.status)}

\* C8: a traversal never fails, takes no more requests than there are
\* matching records (one for an empty result), and when it ends it has
\* delivered exactly the matching records in ascending (name, version)
\* order, each once
C8_TraversalComplete ==
  /\ list.pc # "error"
  /\ list.pages <= Cardinality(MatchingKeys) + 1
  /\ list.pc = "done" => list.out = SortKeys(MatchingKeys)

\* C9: whenever a request carried the cursor built from a delivered record
\* (name and version admitted by validation), the handler decoded it to that
\* record's (name, version) and answered with records strictly after it only
C9_CursorRoundTrip ==
  (list.pages > 0 /\ list.sent # <<>>) =>
     LET k == list.out[Len(list.out) - Len(list.last.servers)]
         c == DecodeCursor(QueryParam(list.sent))
     IN (list.sent = CursorOf(k) /\ NameOk(k[1]) /\ VersionOk(k[2])) =>
          /\ c.ok /\ c.name = k[1] /\ c.version = k[2]
          /\ list.last.code = 200
          /\ \A i \in 1..Len(list.last.servers) :
               KeyLess(k, JsonKey(list.last.servers[i]))

\* C10: a response holds at most limit records and count is their number;
\* nextCursor is set exactly when a matching record lies after the last
\* returned one, and then it is name:version of the last returned record,
\* the page is full and the extra row fetched is not in it
C10_PageShape ==
  (list.pages > 0 /\ list.last.code = 200) =>
     LET resp == list.last
         n == Len(resp.servers)
         lastKey == JsonKey(resp.servers[n])
         later == {k \in MatchingKeys : KeyLess(lastKey, k)}
     IN /\ n <= list.limit
        /\ resp.count = n
        /\ n = 0 => resp.nextCursor = <<>>
        /\ n > 0 =>
             /\ (resp.nextCursor # <<>>) <=> (later # {})
             /\ resp.nextCursor # <<>> =>
                  /\ n = list.limit
                  /\ resp.nextCursor = CursorOf(lastKey)
                  /\ \A i \in 1..n : JsonKey(resp.servers[i]) \notin later

\* a full page of two records was answered with a cursor to more
C10_Witness ==
  /\ list.pages > 0
  /\ list.last.code = 200
  /\ list.limit = 2
  /\ Len(list.last.servers) = 2
  /\ list.last.nextCursor = CursorOf(JsonKey(list.last.servers[2]))

\* visibility of the package of a name: a name without row counts as draft
PackageVisibility(n) ==
  IF n \in DOMAIN packageMetadata THEN packageMetadata[n].visibility ELSE "draft"

\* the stored keys a list request with visibility v and the traversal's
\* status filter has to return
VisibleKeys(v) ==
  {k \in DOMAIN servers :
     /\ servers[k].visibility = v
     /\ PackageVisibility(k[1]) = v
     /\ list.status \in Statuses => servers[k].status = list.status}

\* C11: every record a list request with visibility = v returns has version
\* visibility v and package visibility v (draft when the name has no package
\* row) and matches the status filter; a request without cursor returns the
\* first limit of exactly those records, in (name, version) order
C11_VisibilityFilter ==
  (list.pages > 0 /\ list.last.code = 200 /\ list.visibility \in Visibilities) =>
     LET got == [i \in 1..Len(list.last.servers) |-> JsonKey(list.last.servers[i])]
     IN /\ \A i \in 1..Len(got) : got[i] \in VisibleKeys(list.visibility)
        /\ list.sent = <<>> =>
             got = Take(SortKeys(VisibleKeys(list.visibility)), list.limit)

\* a request with visibility = published was answered with a record while a
\* published version whose name has no package row is stored
C11_Witness ==
  /\ list.pages = 1
  /\ list.last.code = 200
  /\ list.visibility = "published"
  /\ Len(list.last.servers) > 0
  /\ \E k \in DOMAIN servers :
       /\ servers[k].visibility = "published"
       /\ k[1] \notin DOMAIN packageMetadata

\* --------------------------------------------------------- point lookups
\* a name no stored record has, and a name that is a bare "%"
NameXA == <<Ascii.x, Ascii.slash, Ascii.a>>
NamePct == <<Ascii.pct>>

\* the versions the store can hold in the lookup model
ReadKeys == {<<NameAX, Version1>>, <<NameAX, Version2>>, <<NameAY, Version1>>}

\* the names and versions clients ask for
LookupNames == {NameAX, NameAY, NameXA, NamePct}
LookupVersions == {Version1, Version2}

\* registryMeta an admin has put on a package, versionRegistryMeta an admin
\* has put on a version; "official" is the key of the parent registry's entry
PackageMetas ==
  {EmptyMap,
   ("official" :> [by |-> "package"]) @@ ("ka" :> "package") @@ ("kb" :> "package")}
VersionMetas ==
  {EmptyMap, ("kc" :> "version"),
   ("official" :> [by |-> "version"]) @@ ("ka" :> "version")}

\* a stored row: synced from a feed entry of the given variant, its
\* versionRegistryMeta then set by PUT .../versions/:version/metadata
ReadRow(k, variant, m) ==
  [InsertedRow(transformToSubregistryFormat(
                 RawRecord(k, [variant |-> variant, updatedAt |-> 0])), 0)
     EXCEPT !.versionRegistryMeta = m]

\* a package_metadata row as PUT /servers/:name/metadata inserts it
PackageMetaRow(n, m) ==
  [name |-> n, registryMeta |-> m, visibility |-> "draft",
   createdAt |-> 0, updatedAt |-> 0]

InitRead ==
  /\ now = 0
  /\ upstream = [k \in {} |-> [variant |-> "full", updatedAt |-> 0]]
  /\ \E f \in [ReadKeys -> {"full", "bare", "none"}] :
     \E m \in [{<<NameAX, Version1>>, <<NameAX, Version2>>} -> VersionMetas] :
       servers = [k \in {j \in ReadKeys : f[j] # "none"} |->
                    ReadRow(k, f[k], IF k \in DOMAIN m THEN m[k] ELSE EmptyMap)]
  /\ \E names \in SUBSET {NameAX, NameAY} :
     \E g \in [names -> PackageMetas] :
       packageMetadata = [n \in names |-> PackageMetaRow(n, g[n])]
  /\ syncLog = <<>>
  /\ invCount = 0
  /\ run = [r \in Triggers |-> IdleRun]
  /\ patchReq = NoPatch
  /\ adminMeta = [k \in {} |-> EmptyMap]
  /\ adminVis = [k \in {} |-> "draft"]
  /\ list = IdleList
  /\ lookup = NoLookup
  /\ adminResp = NoAdminResp
  /\ pkgPatch = NoPkgPatch

\* what c.req.param() holds when the client put the string s, URL-encoded,
\* in the path segment
PathParam(s) == DecodeURIComponent(EncodeURIComponent(s)).value

\* WHERE name = :name AND isLatest = true
SelectLatest(srv, name) ==
  {k \in DOMAIN srv : k[1] = name /\ srv[k].isLatest = TRUE}

\* GET /servers/:name asked for name n, on tables srv and pkgs: the row
\* selected by name = decodeURIComponent(param) AND isLatest, LIMIT 1 (any of
\* them when several match); 404 without row; 500 when decodeURIComponent
\* throws. The set holds the answers the storage can give
GetServerAnswers(srv, pkgs, n) ==
  LET d == DecodeURIComponent(PathParam(n))
      results == SelectLatest(srv, d.value)
  IN IF ~d.ok
       THEN {[route |-> "latest", name |-> n, version |-> <<>>,
              code |-> 500, body |-> Absent]}
     ELSE IF results = {}
       THEN {[route |-> "latest", name |-> n, version |-> <<>>,
              code |-> 404, body |-> Absent]}
     ELSE {[route |-> "latest", name |-> n, version |-> <<>>, code |-> 200,
            body |-> toServerJson(srv[k], pkgs)] : k \in results}

GetServer(n) ==
  /\ \E answer \in GetServerAnswers(servers, packageMetadata, n) :
       lookup' = answer
  /\ UNCHANGED <<syncVars, packageMetadata, list, adminResp, pkgPatch>>

\* GetServerVersionAnswer with a condition visibility = published on the
\* version and on its package
GetServerVersionAnswerPublishedOnly(srv, pkgs, n, v) ==
  LET dn == DecodeURIComponent(PathParam(n))
      dv == DecodeURIComponent(PathParam(v))
      k == <<dn.value, dv.value>>
  IN IF ~dn.ok \/ ~dv.ok
       THEN [route |-> "version", name |-> n, version |-> v,
             code |-> 500, body |-> Absent]
     ELSE IF k \notin DOMAIN srv
       THEN [route |-> "version", name |-> n, version |-> v,
             code |-> 404, body |-> Absent]
     ELSE IF ~FilterMatches(srv[k], pkgs, "published", Absent)
       THEN [route |-> "version", name |-> n, version |-> v,
             code |-> 404, body |-> Absent]
     ELSE [route |-> "version", name |-> n, version |-> v, code |-> 200,
           body |-> toServerJson(srv[k], pkgs)]

\* GET /servers/:name/versions/:version asked for (n, v), on tables srv and
\* pkgs
GetServerVersionAnswer(srv, pkgs, n, v) ==
  LET dn == DecodeURIComponent(PathParam(n))
      dv == DecodeURIComponent(PathParam(v))
      k == <<dn.value, dv.value>>
  IN IF ~dn.ok \/ ~dv.ok
       THEN [route |-> "version", name |-> n, version |-> v,
             code |-> 500, body |-> Absent]
     ELSE IF k \notin DOMAIN srv
       THEN [route |-> "version", name |-> n, version |-> v,
             code |-> 404, body |-> Absent]
     ELSE [route |-> "version", name |-> n, version |-> v, code |-> 200,
           body |-> toServerJson(srv[k], pkgs)]

GetServerVersion(n, v) ==
  /\ lookup' = GetServerVersionAnswer(servers, packageMetadata, n, v)
  /\ UNCHANGED <<syncVars, packageMetadata, list, adminResp, pkgPatch>>

\* the lookup model: any store, point lookups and unfiltered list requests
NextRead ==
  \/ \E n \in LookupNames : GetServer(n)
  \/ \E n \in LookupNames, v \in LookupVersions : GetServerVersion(n, v)
  \/ StartTraversal(MaxLimit, Absent, Absent)
  \/ ListRequest

SpecRead == InitRead /\ [][NextRead]_vars

\* the records served by the last point lookup and the last list response
Served ==
  (IF lookup.code = 200 THEN {lookup.body} ELSE {})
    \cup {list.last.servers[i] : i \in 1..Len(list.last.servers)}

\* C12: the wrapper-level _meta of every served record has exactly the keys
\* of parentRegistryMeta, of the package's registryMeta (when the name has a
\* package row) and of versionRegistryMeta, and under each key the value of
\* the last of these three layers that defines it
C12_MetaOverlay ==
  \A json \in Served :
    LET k == JsonKey(json)
        parent == servers[k].parentRegistryMeta
        package == IF k[1] \in DOMAIN packageMetadata
                     THEN packageMetadata[k[1]].registryMeta ELSE EmptyMap
        version == servers[k].versionRegistryMeta
    IN /\ DOMAIN json.meta = DOMAIN parent \cup DOMAIN package \cup DOMAIN version
       /\ \A key \in DOMAIN json.meta :
            json.meta[key] = IF key \in DOMAIN version THEN version[key]
                             ELSE IF key \in DOMAIN package THEN package[key]
                             ELSE parent[key]

\* a record was served whose three layers all define "official", whose
\* package and version layers both define "ka", and whose package layer
\* alone defines "kb"
C12_Witness ==
  /\ lookup.code = 200
  /\ LET k == JsonKey(lookup.body) IN
       /\ k[1] \in DOMAIN packageMetadata
       /\ "official" \in DOMAIN packageMetadata[k[1]].registryMeta
       /\ "official" \in DOMAIN servers[k].versionRegistryMeta
       /\ "official" \in DOMAIN servers[k].parentRegistryMeta
  /\ lookup.body.meta["ka"] = "version"
  /\ lookup.body.meta["kb"] = "package"

\* the stored versions of name n that have isLatest = true
LatestOf(n) == {k \in DOMAIN servers : k[1] = n /\ servers[k].isLatest}

\* C15: GET /servers/{name} answers 404 exactly when the name has no stored
\* record with isLatest = true, and otherwise 200 with a record of that name
\* whose isLatest is true
C15_LatestLookup ==
  lookup.route = "latest" =>
    /\ (lookup.code = 404) <=> (LatestOf(lookup.name) = {})
    /\ LatestOf(lookup.name) # {} =>
         /\ lookup.code = 200
         /\ JsonKey(lookup.body) \in LatestOf(lookup.name)

\* ------------------------------------------------------ tolerance model
\* the upstream cuts its pages at this many entries in the tolerance model
TolPageSize == 2

\* the (name, version) pairs the feed publishes in the tolerance model
TolKeys == FeedKeys \cup {<<NameAY, Version1>>}

\* one caller, no request and no statement fails, pages hold up to
\* TolPageSize entries, valid or not, and the feed changes at any moment
NextTol ==
  \/ StartSync("manual")
  \/ FetchPageOf("manual", TolPageSize)
  \/ CommitBatch("manual", TRUE)
  \/ Return("manual")
  \/ \E k \in TolKeys, v \in PlainVariants : UpstreamPublish(k, v)

SpecTol == Init /\ [][NextTol]_vars

RawKey(raw) == <<raw.server.name, raw.server.version>>

\* C13: when a run whose requests all succeeded commits, its processed
\* count, returned and stored in its success row, is the number of valid
\* records among all it received; every valid record is stored with the
\* fetched description and publisher metadata; the key of a record received
\* invalid is left as it was; no other row appears
C13_InvalidRecordsSkipped ==
  [][\A r \in Triggers :
       (BatchStep(r) /\ ~run[r].fetchFailed) =>
          LET raw == run[r].rawServers
              valid == {i \in 1..Len(raw) : IsValidRecord(raw[i])}
              validKeys == {RawKey(raw[i]) : i \in valid}
          IN /\ run'[r].pc = "done"
             /\ run'[r].result =
                  [outcome |-> "success", processed |-> Cardinality(valid)]
             /\ Len(syncLog') = Len(syncLog) + 1
             /\ syncLog'[Len(syncLog')].status = "success"
             /\ syncLog'[Len(syncLog')].serversProcessed = Cardinality(valid)
             /\ DOMAIN servers' = DOMAIN servers \cup validKeys
             /\ \A i \in valid :
                  /\ servers'[RawKey(raw[i])].description = raw[i].server.description
                  /\ servers'[RawKey(raw[i])].publisherMeta = raw[i].server.meta
             /\ \A k \in DOMAIN servers \ validKeys : servers'[k] = servers[k]]_vars

\* a run has committed with processed = 2 after receiving, on its first page,
\* an invalid record followed by a valid one, and a valid record on its
\* second page
C13_Witness ==
  /\ run["manual"].pc = "done"
  /\ Len(run["manual"].rawServers) = 3
  /\ ~IsValidRecord(run["manual"].rawServers[1])
  /\ IsValidRecord(run["manual"].rawServers[2])
  /\ IsValidRecord(run["manual"].rawServers[3])
  /\ run["manual"].result = [outcome |-> "success", processed |-> 2]
  /\ syncLog[Len(syncLog)].serversProcessed = 2
  /\ Cardinality(DOMAIN servers) = 2

\* --------------------------------------------------------- release model
\* the upstream registry releases version k as the latest of its name: in
\* one step it marks k latest and every other version of the name not
\* latest, stamping updatedAt on each entry it changes
UpstreamRelease(k) ==
  /\ IF k \in DOMAIN upstream THEN upstream[k].variant # "full" ELSE TRUE
  /\ upstream' =
       [j \in DOMAIN upstream \cup {k} |->
          IF j = k THEN [variant |-> "full", updatedAt |-> now]
          ELSE IF j[1] = k[1] /\ upstream[j].variant = "full"
            THEN [variant |-> "old", updatedAt |-> now]
          ELSE upstream[j]]
  /\ UNCHANGED <<now, servers, packageMetadata, syncLog, invCount, run,
                 patchReq, adminMeta, adminVis, list, lookup, adminResp, pkgPatch>>

\* one run at a time, no request and no statement fails, the clock runs and
\* the upstream releases versions at any moment
NextLatest ==
  \/ SeqSyncStep
  \/ \E k \in FeedKeys : UpstreamRelease(k)
  \/ Tick

SpecLatest == Init /\ [][NextLatest]_vars

\* the feed itself never has two latest versions of a name
UpstreamOneLatest ==
  \A k1, k2 \in DOMAIN upstream :
    (k1[1] = k2[1] /\ upstream[k1].variant = "full"
       /\ upstream[k2].variant = "full") => k1 = k2

\* C14: for each name at most one stored record has isLatest = true (the
\* feed itself has at most one latest version per name at every moment)
C14_OneLatestPerName ==
  \A k1, k2 \in DOMAIN servers :
    (k1[1] = k2[1] /\ servers[k1].isLatest /\ servers[k2].isLatest) => k1 = k2

\* ------------------------------------------------- reads during a run
\* one caller whose batch the storage may reject, the feed changing at any
\* moment, and clients reading at any moment: both point lookups and
\* unfiltered list requests
ConcSyncStep ==
  \/ StartSync("manual")
  \/ FetchPage("manual")
  \/ \E ok \in BOOLEAN : CommitBatchOf("manual", ok, TRUE)
  \/ LogFailure("manual", TRUE)
  \/ Return("manual")

ConcReadStep ==
  \/ GetServer(NameAX)
  \/ \E v \in LookupVersions : GetServerVersion(NameAX, v)
  \/ StartTraversal(MaxLimit, Absent, Absent)
  \/ ListRequest

NextConc == ConcSyncStep \/ PublishStep \/ ConcReadStep

SpecConc == Init /\ [][NextConc]_vars

\* the run of r has executed its batch and has not returned yet
BatchDone(r) == run[r].pc \in {"catch", "done"}

\* C16: a read (either point lookup, or a list request) made after a run's
\* batch statement and before the run returns gets the answer that the
\* store as it was before the batch gives, or the answer that the store with
\* the whole batch applied gives
C16_ReadsSeeWholeBatches ==
  [][\A r \in Triggers :
       BatchDone(r) =>
         LET stores == {run[r].before, run[r].after} IN
         /\ (lookup' # lookup /\ lookup'.route = "latest") =>
              \E srv \in stores :
                lookup' \in GetServerAnswers(srv, packageMetadata, lookup'.name)
         /\ (lookup' # lookup /\ lookup'.route = "version") =>
              \E srv \in stores :
                lookup' = GetServerVersionAnswer(srv, packageMetadata,
                                                 lookup'.name, lookup'.version)
         /\ list'.pages = list.pages + 1 =>
              \E srv \in stores :
                list'.last = ListServers(srv, packageMetadata, list.limit,
                                         QueryParam(list.cursor),
                                         list.visibility, list.status)]_vars

\* a list request made right after a batch of two upserts committed was
\* answered with both records, neither of which was stored before the batch
C16_Witness ==
  /\ run["manual"].pc = "done"
  /\ run["manual"].before = NoRows
  /\ Len(run["manual"].officialServers) = 2
  /\ list.pages = 1
  /\ Len(list.last.servers) = 2

\* ------------------------------------------------------- repeated runs
\* any feed, fixed from the start, and nothing stored
InitTwice ==
  /\ now = 0
  /\ \E f \in [FeedKeys -> FeedVariants \cup {"none"}] :
       upstream = [k \in {j \in FeedKeys : f[j] # "none"} |->
                     [variant |-> f[k], updatedAt |-> 0]]
  /\ servers = NoRows
  /\ packageMetadata = [n \in {} |-> 0]
  /\ syncLog = <<>>
  /\ invCount = 0
  /\ run = [r \in Triggers |-> IdleRun]
  /\ patchReq = NoPatch
  /\ adminMeta = [k \in {} |-> EmptyMap]
  /\ adminVis = [k \in {} |-> "draft"]
  /\ list = IdleList
  /\ lookup = NoLookup
  /\ adminResp = NoAdminResp
  /\ pkgPatch = NoPkgPatch

\* runs one after the other on the unchanged feed, no request and no
\* statement fails, the clock runs, admins write between any two steps
NextTwice == SeqSyncStep \/ AdminStep \/ Tick

SpecTwice == InitTwice /\ [][NextTwice]_vars

\* a row with its updatedAt column left out
WithoutUpdatedAt(row) == [c \in DOMAIN row \ {"updatedAt"} |-> row[c]]

\* C17: on a feed that does not change, the commit of every run after the
\* first adds and removes no row and leaves every column of every stored
\* row, except updatedAt, as it was
C17_SecondRunChangesNothing ==
  [][\A r \in Triggers :
       (BatchStep(r) /\ run[r].inv > 1) =>
          /\ DOMAIN servers' = DOMAIN servers
          /\ \A k \in DOMAIN servers :
               WithoutUpdatedAt(servers'[k]) = WithoutUpdatedAt(servers[k])]_vars

\* the second run has committed the upsert of a row stored by the first one,
\* a second later, after an admin published the row and set its metadata
C17_Witness ==
  \E r \in Triggers :
    /\ run[r].pc = "done"
    /\ run[r].inv = 2
    /\ \E i \in 1..Len(run[r].officialServers) :
         LET k == RawKey(run[r].officialServers[i]) IN
         /\ servers[k].updatedAt > servers[k].createdAt
         /\ servers[k].visibility = "published"
         /\ servers[k].versionRegistryMeta # EmptyMap

\* --------------------------------------------------------- ledger model
\* sync_log rows left by invocations that ended before the first state:
\* up to two, of either status, written at whole seconds in id order
PriorRow(id, status, at) ==
  [id |-> id, source |-> "official-registry", status |-> status,
   serversProcessed |-> 0,
   errorMessage |-> IF status = "failure" THEN "storage error" ELSE Null,
   syncedAt |-> ToStoredTime(at), inv |-> 0]

PriorLogs(t) ==
  {<<>>}
    \cup {<<PriorRow(1, s1, t1)>> : s1 \in {"success", "failure"}, t1 \in 0..t}
    \cup {<<PriorRow(1, x[1], x[2]), PriorRow(2, x[3], x[4])>> :
            x \in {y \in {"success", "failure"} \X (0..t)
                          \X {"success", "failure"} \X (0..t) : y[2] <= y[4]}}

InitLedger ==
  /\ now = MaxTime - 1
  /\ upstream = [k \in {} |-> [variant |-> "full", updatedAt |-> 0]]
  /\ servers = NoRows
  /\ packageMetadata = [n \in {} |-> 0]
  /\ syncLog \in PriorLogs(now)
  /\ invCount = 0
  /\ run = [r \in Triggers |-> IdleRun]
  /\ patchReq = NoPatch
  /\ adminMeta = [k \in {} |-> EmptyMap]
  /\ adminVis = [k \in {} |-> "draft"]
  /\ list = IdleList
  /\ lookup = NoLookup
  /\ adminResp = NoAdminResp
  /\ pkgPatch = NoPkgPatch

\* one run at a time; any request and any statement may fail
LedgerSyncStep ==
  \E r \in Triggers :
    \/ (\A q \in Triggers : run[q].pc = "idle") /\ StartSync(r)
    \/ (\A q \in Triggers : run[q].pc = "idle") /\ StartSyncFails(r)
    \/ FetchPage(r)
    \/ FetchPageFails(r)
    \/ \E ok \in BOOLEAN : CommitBatch(r, ok)
    \/ \E ok \in BOOLEAN : LogFailure(r, ok)
    \/ Return(r)

LedgerPublishStep == \E k \in FeedKeys : UpstreamPublish(k, "full")

NextLedger == LedgerSyncStep \/ LedgerPublishStep \/ Tick

SpecLedger == InitLedger /\ [][NextLedger]_vars

\* the sync_log rows with the run's source and status = success
SuccessRows ==
  {i \in 1..Len(syncLog) :
     syncLog[i].source = "official-registry" /\ syncLog[i].status = "success"}

\* C18: the watermark a run reads is the syncedAt of a success row of its
\* source that no other such row exceeds, whatever failure rows the ledger
\* holds; without such a row the run has no watermark, and its first request
\* is answered with the first entries of the feed whatever their updatedAt
C18_WatermarkIsLastSuccess ==
  [][\A r \in Triggers :
       /\ (run[r].pc = "idle" /\ run'[r].pc = "fetching") =>
            IF SuccessRows = {}
              THEN run'[r].updatedSince = NoWatermark
              ELSE /\ \E i \in SuccessRows :
                        syncLog[i].syncedAt = run'[r].updatedSince
                   /\ \A i \in SuccessRows :
                        syncLog[i].syncedAt <= run'[r].updatedSince
       /\ (run[r].pc = "fetching" /\ run[r].updatedSince = NoWatermark
             /\ run[r].cursor = NoCursor /\ run'[r] # run[r]
             /\ ~run'[r].fetchFailed) =>
            [i \in 1..Len(run'[r].rawServers) |-> RawKey(run'[r].rawServers[i])]
              = Take(SortKeys(DOMAIN upstream), UpstreamPageSize)]_vars

\* a run has read the watermark of the later of two success rows while the
\* newest row of the ledger is a failure row
C18_Witness ==
  \E r \in Triggers :
    /\ run[r].pc = "fetching"
    /\ Len(syncLog) = 3
    /\ syncLog[1].status = "success"
    /\ syncLog[2].status = "success"
    /\ syncLog[3].status = "failure"
    /\ syncLog[1].syncedAt < syncLog[2].syncedAt
    /\ run[r].updatedSince = syncLog[2].syncedAt

\* C19: no step of a run whose fetch has failed, at whatever page, changes a
\* row of the servers table
C19_FailedFetchCommitsNothing ==
  [][\A r \in Triggers :
       (run[r].fetchFailed /\ run'[r] # run[r]) => servers' = servers]_vars

\* a run whose fetch failed after a page with a valid record has ended, and
\* that record is not stored
C19_Witness ==
  \E r \in Triggers :
    /\ run[r].pc = "done"
    /\ run[r].fetchFailed
    /\ run[r].allServers # <<>>
    /\ RawKey(run[r].allServers[1]) \notin DOMAIN servers

\* an error occurred in the finished run of r: a page request failed, or a
\* statement was rejected (the run then went through its catch block)
RunHadError(r) == run[r].fetchFailed \/ run[r].result.outcome # "success"

\* C20: a finished run in which a page request, the batch or the insert of
\* the failure row failed has given its caller a result with success = false
\* and has not thrown: GET /sync answers with success = false and the cron
\* handler's promise is not rejected
C20_ErrorsReachCallerAsResult ==
  \A r \in Triggers :
    (run[r].pc = "done" /\ RunHadError(r)) =>
       /\ run[r].result.outcome = "failure"
       /\ CallerOutcome(r).kind # "unhandled rejection"
       /\ ~CallerOutcome(r).success

\* ---------------------------------------------------------- fetch model
\* one caller, no request and no statement fails, the feed changes at any
\* moment; a fetch that has a request to make makes it
NextFetch ==
  \/ StartSync("manual")
  \/ FetchPage("manual")
  \/ CommitBatch("manual", TRUE)
  \/ Return("manual")
  \/ PublishStep

SpecFetch == Init /\ [][NextFetch]_vars /\ WF_vars(FetchPage("manual"))

\* the entries of the feed a request with this updated_since and this cursor
\* still has to deliver
Remaining(since, cursor) ==
  {k \in DOMAIN upstream :
     /\ since = NoWatermark \/ upstream[k].updatedAt >= since
     /\ cursor = NoCursor \/ KeyLess(cursor, k)}

\* C21: each request of a fetch carries the nextCursor of the page before it
\* (none on the first) and the run's updated_since; the fetch goes on exactly
\* while the page just received leaves entries of the feed undelivered; what
\* it returns is the valid records of all pages in page order; and every
\* fetch ends
C21_FetchFollowsPages ==
  /\ [][\A r \in Triggers :
          (run[r].pc = "fetching" /\ run'[r] # run[r]) =>
             LET page == SubSeq(run'[r].rawServers, Len(run[r].rawServers) + 1,
                                Len(run'[r].rawServers))
                 sent == IF run[r].rawServers = <<>> THEN NoCursor
                         ELSE RawKey(run[r].rawServers[Len(run[r].rawServers)])
                 last == IF page = <<>> THEN sent ELSE RawKey(page[Len(page)])
             IN /\ run[r].cursor = sent
                /\ [i \in 1..Len(page) |-> RawKey(page[i])] =
                     Take(SortKeys(Remaining(run[r].updatedSince, sent)),
                          UpstreamPageSize)
                /\ (run'[r].pc = "fetching") <=>
                     (Remaining(run[r].updatedSince, last) # {})
                /\ run'[r].pc = "fetching" => run'[r].cursor = last
                /\ run'[r].pc # "fetching" =>
                     /\ run'[r].pc = "fetched"
                     /\ run'[r].officialServers =
                          SelectSeq(run'[r].rawServers, IsValidRecord)]_vars
  /\ \A r \in Triggers : (run[r].pc = "fetching") ~> (run[r].pc = "fetched")

\* an incremental fetch has ended after two pages, the first with an invalid
\* record and the second with a valid one, and returned the valid one
C21_Witness ==
  /\ run["manual"].pc = "fetched"
  /\ run["manual"].updatedSince # NoWatermark
  /\ Len(run["manual"].rawServers) = 2
  /\ ~IsValidRecord(run["manual"].rawServers[1])
  /\ Len(run["manual"].officialServers) = 1
  /\ run["manual"].officialServers[1] = run["manual"].rawServers[2]

\* C22: a commit leaves, as the stored status of every record of its batch,
\* the status the feed reports for the record in its registry metadata
C22_StatusFromRegistryMeta ==
  [][\A r \in Triggers :
       (run[r].pc = "fetched" /\ run'[r].pc = "done") =>
          \A i \in 1..Len(run[r].officialServers) :
             servers'[RawKey(run[r].officialServers[i])].status =
               run[r].officialServers[i].meta.official.status]_vars

\* ------------------------------------------------- versions of a name
\* the versions the store can hold in the versions model: three of one name
VersionsKeys ==
  {<<NameAX, Version1>>, <<NameAX, Version2>>, <<NameAX, Version100>>}

\* a stored row: synced from a feed entry of the given variant (which fixes
\* publishedAt), with the visibility and status of the given kind
VersionsRow(k, variant, kind) ==
  [InsertedRow(transformToSubregistryFormat(
                 RawRecord(k, [variant |-> variant, updatedAt |-> 0])), 0)
     EXCEPT !.visibility = IF kind = "draft" THEN "draft" ELSE "published",
            !.status = IF kind = "retired" THEN "deprecated" ELSE "active"]

InitVersions ==
  /\ now = 0
  /\ upstream = [k \in {} |-> [variant |-> "full", updatedAt |-> 0]]
  /\ \E stored \in SUBSET VersionsKeys :
     \E f \in [stored -> {"full", "bare"} \X RowKinds] :
       servers = [k \in stored |-> VersionsRow(k, f[k][1], f[k][2])]
  /\ \E names \in SUBSET {NameAX} :
     \E g \in [names -> Visibilities] :
       packageMetadata = [n \in names |-> PackageRow(n, g[n])]
  /\ syncLog = <<>>
  /\ invCount = 0
  /\ run = [r \in Triggers |-> IdleRun]
  /\ patchReq = NoPatch
  /\ adminMeta = [k \in {} |-> EmptyMap]
  /\ adminVis = [k \in {} |-> "draft"]
  /\ list = IdleList
  /\ lookup = NoLookup
  /\ adminResp = NoAdminResp
  /\ pkgPatch = NoPkgPatch

\* ORDER BY publishedAt ASC
OldestFirst(srv, keys) ==
  {o \in [1..Cardinality(keys) -> keys] :
     /\ \A i, j \in DOMAIN o : i # j => o[i] # o[j]
     /\ \A i, j \in DOMAIN o : i < j => srv[o[i]].publishedAt <= srv[o[j]].publishedAt}

\* ORDER BY publishedAt DESC: the orders in which the storage can return
\* these rows (rows of the same second in any order)
NewestFirst(srv, keys) ==
  {o \in [1..Cardinality(keys) -> keys] :
     /\ \A i, j \in DOMAIN o : i # j => o[i] # o[j]
     /\ \A i, j \in DOMAIN o : i < j => srv[o[i]].publishedAt >= srv[o[j]].publishedAt}

\* GET /servers/:name/versions asked for name n with these query parameters
GetServerVersionsAnswers(srv, pkgs, n, visibility, status) ==
  LET d == DecodeURIComponent(PathParam(n))
      keys == {k \in DOMAIN srv :
                 /\ k[1] = d.value
                 /\ FilterMatches(srv[k], pkgs, visibility, status)}
  IN IF ~d.ok
       THEN {[route |-> "versions", name |-> n, version |-> <<>>,
              visibility |-> visibility, status |-> status,
              code |-> 500, body |-> <<>>]}
     ELSE IF keys = {}
       THEN {[route |-> "versions", name |-> n, version |-> <<>>,
              visibility |-> visibility, status |-> status,
              code |-> 404, body |-> <<>>]}
     ELSE {[route |-> "versions", name |-> n, version |-> <<>>,
            visibility |-> visibility, status |-> status, code |-> 200,
            body |-> [i \in 1..Len(o) |-> toServerJson(srv[o[i]], pkgs)]] :
              o \in NewestFirst(srv, keys)}

GetServerVersions(n, visibility, status) ==
  /\ \E answer \in GetServerVersionsAnswers(servers, packageMetadata, n,
                                            visibility, status) :
       lookup' = answer
  /\ UNCHANGED <<syncVars, packageMetadata, list, adminResp, pkgPatch>>

NextVersions ==
  \E n \in {NameAX, NameXA, NamePct}, visibility \in Visibilities \cup {Absent},
     status \in {"active", "deprecated", Absent} :
       GetServerVersions(n, visibility, status)

SpecVersions == InitVersions /\ [][NextVersions]_vars

\* the keys of the records of a versions response, in response order
BodyKeys == [i \in 1..Len(lookup.body) |-> JsonKey(lookup.body[i])]

\* the records of a versions response are in descending publishedAt order
BodyNewestFirst ==
  \A i, j \in 1..Len(lookup.body) :
    i < j => servers[BodyKeys[i]].publishedAt >= servers[BodyKeys[j]].publishedAt

AdminKeys == FeedKeys

\* an admin request on /servers/:name/versions/:version/... whose name or
\* version, as c.req.param() hands it over, decodeURIComponent rejects: the
\* URIError lands in the handler's catch, 500, nothing written
AdminVersionRequestUndecodable(route, n, v) ==
  /\ \/ ~DecodeURIComponent(PathParam(n)).ok
     \/ ~DecodeURIComponent(PathParam(v)).ok
  /\ adminResp' = [route |-> route, key |-> <<n, v>>, code |-> 500]
  /\ UNCHANGED <<syncVars, packageMetadata, list, lookup, pkgPatch>>

VersionAdminStep ==
  \/ AdminVersionRequestUndecodable("put version metadata", NamePct, Version1)
  \/ AdminVersionRequestUndecodable("patch version visibility", NameAX, VersionPct)
  \/ \E k \in AdminKeys :
       \/ \E m \in PutBodies : AdminPutVersionMeta(k, m)
       \/ \E m \in PutBodies : AdminPutVersionMetaNotFound(k, m)
       \/ \E m \in PatchBodies : AdminPatchVersionMetaRead(k, m)
       \/ \E m \in PatchBodies : AdminPatchVersionMetaNotFound(k, m)
       \/ AdminPatchVersionMetaWrite
       \/ AdminDeleteVersionMeta(k)
       \/ \E v \in Visibilities : AdminPatchVersionVisibility(k, v)
       \/ \E v \in Visibilities : AdminPatchVersionVisibilityNotFound(k, v)

PackageAdminStep ==
  \/ \E m \in PutBodies : AdminPutPackageMeta(NameAX, m)
  \/ AdminDeletePackageMeta(NameAX)
  \/ \E v \in Visibilities : AdminPatchPackageVisibility(NameAX, v)

AdminSyncStep ==
  \/ StartSync("manual")
  \/ FetchPage("manual")
  \/ CommitBatch("manual", TRUE)
  \/ Return("manual")

\* the feed gets one of the two versions the admin asks for
AdminPublishStep == UpstreamPublish(<<NameAX, Version1>>, "full")

NextAdmin ==
  AdminSyncStep \/ AdminPublishStep \/ VersionAdminStep \/ PackageAdminStep

SpecAdmin == Init /\ [][NextAdmin]_vars

\* only the commit of a run changes which (name, version) rows are stored,
\* and every other step, admin requests included, leaves every
\* upstream-owned column of every stored row as it is
AdminWritesOwnColumnsOnly ==
  [][/\ DOMAIN servers' # DOMAIN servers => \E r \in Triggers : BatchStep(r)
     /\ (\A r \in Triggers : ~BatchStep(r)) =>
          \A k \in DOMAIN servers :
            /\ k \in DOMAIN servers'
            /\ UpstreamColumns(servers'[k]) = UpstreamColumns(servers[k])]_vars

\* C24: only the commit of a run changes which (name, version) rows are
\* stored; every other step, admin requests included, leaves every
\* upstream-owned column of every stored row as it is; and an admin request
\* on a (name, version) that is not stored is answered 404 and writes nothing
C24_RowsOnlyFromReconciler ==
  [][/\ DOMAIN servers' # DOMAIN servers => \E r \in Triggers : BatchStep(r)
     /\ (\A r \in Triggers : ~BatchStep(r)) =>
          \A k \in DOMAIN servers :
            /\ k \in DOMAIN servers'
            /\ UpstreamColumns(servers'[k]) = UpstreamColumns(servers[k])
     /\ (adminResp' # adminResp /\ Len(adminResp'.key) = 2
           /\ adminResp'.key \notin DOMAIN servers) =>
          /\ adminResp'.code = 404
          /\ servers' = servers]_vars

\* ------------------------------------------------------- overlapping runs
\* the upstream registry publishes an entry, and later changes it once: the
\* contents of an entry never return to what they were
UpstreamRevise(k) ==
  \/ k \notin DOMAIN upstream /\ UpstreamPublish(k, "full")
  \/ k \in DOMAIN upstream /\ upstream[k].variant = "full"
       /\ UpstreamPublish(k, "bare")

\* the overlap model: the cron run and the manual run at any interleaving of
\* their steps, no request and no statement failing, the feed moving forward
NextOverlap == OwnSyncStep \/ (\E k \in FeedKeys : UpstreamRevise(k))

SpecOverlap == Init /\ [][NextOverlap]_vars

\* the row of key k holds what the feed reports for k now
UpToDate(srv, k) ==
  /\ k \in DOMAIN srv
  /\ k \in DOMAIN upstream
  /\ UpstreamColumns(srv[k]) = WrittenColumns(RawRecord(k, upstream[k]))

\* C25: the commit of a run leaves every row that already holds the feed's
\* current contents (committed by the other run, which fetched later) as it
\* is: a run that fetched older data does not overwrite newer data
C25_OlderFetchNeverOverwrites ==
  [][\A r \in Triggers :
       BatchStep(r) =>
         \A k \in DOMAIN servers :
           UpToDate(servers, k) => UpToDate(servers', k)]_vars

\* ------------------------------------------------------ concurrent PATCH
PatchNames == {NameAX, NameAY}

\* the bodies the admin clients send: two with disjoint keys
ClientBodies == {("ka" :> "c1"), ("kc" :> "c2")}

\* every package has a row, as PUT /servers/:name/metadata left it
InitPatch ==
  /\ now = 0
  /\ upstream = [k \in {} |-> [variant |-> "full", updatedAt |-> 0]]
  /\ servers = NoRows
  /\ \E g \in [PatchNames -> PackageMetas] :
       packageMetadata = [n \in PatchNames |-> PackageMetaRow(n, g[n])]
  /\ syncLog = <<>>
  /\ invCount = 0
  /\ run = [r \in Triggers |-> IdleRun]
  /\ patchReq = NoPatch
  /\ adminMeta = [k \in {} |-> EmptyMap]
  /\ adminVis = [k \in {} |-> "draft"]
  /\ list = IdleList
  /\ lookup = NoLookup
  /\ adminResp = NoAdminResp
  /\ pkgPatch = NoPkgPatch

\* the PATCH model: two admin clients, each PATCH request a read and a write,
\* the statements of the two clients in any order
NextPatch ==
  \E c \in Clients :
    \/ \E n \in PatchNames, m \in ClientBodies : AdminPatchPackageMetaRead(c, n, m)
    \/ AdminPatchPackageMetaWrite(c)

SpecPatch == InitPatch /\ [][NextPatch]_vars

\* C26: when both clients have completed a PATCH of the same package with
\* disjoint keys, the stored registryMeta has the keys of both requests
C26_BothPatchesTakeEffect ==
  \A c1, c2 \in Clients :
    (/\ c1 # c2
     /\ pkgPatch[c1].pc = "done"
     /\ pkgPatch[c2].pc = "done"
     /\ pkgPatch[c1].name = pkgPatch[c2].name
     /\ DOMAIN pkgPatch[c1].partial \cap DOMAIN pkgPatch[c2].partial = {})
    => (DOMAIN pkgPatch[c1].partial \cup DOMAIN pkgPatch[c2].partial)
         \subseteq DOMAIN packageMetadata[pkgPatch[c1].name].registryMeta

\* --------------------------------------------------- package visibility
PkgKeys == {<<NameAX, Version1>>, <<NameAY, Version1>>}

PkgNames == {NameAX, NameAY}

\* both versions stored, draft or published; each package with a row of
\* either visibility, written at time 0
InitPkg ==
  /\ now = 0
  /\ upstream = [k \in {} |-> [variant |-> "full", updatedAt |-> 0]]
  /\ \E f \in [PkgKeys -> Visibilities] :
       servers = [k \in PkgKeys |-> ListRow(k, f[k])]
  /\ \E g \in [PkgNames -> Visibilities] :
       packageMetadata = [n \in PkgNames |-> PackageRow(n, g[n])]
  /\ syncLog = <<>>
  /\ invCount = 0
  /\ run = [r \in Triggers |-> IdleRun]
  /\ patchReq = NoPatch
  /\ adminMeta = [k \in {} |-> EmptyMap]
  /\ adminVis = [k \in {} |-> "draft"]
  /\ list = IdleList
  /\ lookup = NoLookup
  /\ adminResp = NoAdminResp
  /\ pkgPatch = NoPkgPatch

\* the package model: the admin writes and deletes package rows, a client
\* lists the published records
NextPkg ==
  \/ \E n \in PkgNames :
       \/ \E m \in PutBodies : AdminPutPackageMeta(n, m)
       \/ AdminDeletePackageMeta(n)
       \/ \E v \in Visibilities : AdminPatchPackageVisibility(n, v)
  \/ StartTraversal(MaxLimit, "published", Absent)
  \/ ListRequest
  \/ Tick

SpecPkg == InitPkg /\ [][NextPkg]_vars

\* the step answers an admin request of the given route on package n
PackageRequest(route, n) ==
  /\ adminResp' = [route |-> route, key |-> <<n>>, code |-> 200]
  /\ \/ adminResp' # adminResp
     \/ packageMetadata' # packageMetadata

\* C27: DELETE /servers/:name/metadata leaves the package without a row; a
\* package that is not published becomes published only by PATCH
\* /servers/:name/visibility; a PUT of metadata on a package without a row
\* creates the row with visibility draft; and a list request with visibility
\* = published returns no version of a package that has no row or a draft row
C27_DeleteResetsVisibility ==
  [][/\ \A n \in PkgNames :
          /\ PackageRequest("delete package metadata", n) =>
               n \notin DOMAIN packageMetadata'
          /\ (n \notin DOMAIN packageMetadata
                /\ PackageRequest("put package metadata", n)) =>
               /\ n \in DOMAIN packageMetadata'
               /\ packageMetadata'[n].visibility = "draft"
          /\ ((n \notin DOMAIN packageMetadata
                 \/ packageMetadata[n].visibility # "published")
                /\ n \in DOMAIN packageMetadata'
                /\ packageMetadata'[n].visibility = "published") =>
               PackageRequest("patch package visibility", n)
     /\ (list'.pages = list.pages + 1 /\ list.visibility = "published") =>
          /\ list'.last.code = 200
          /\ \A i \in 1..Len(list'.last.servers) :
               LET n == JsonKey(list'.last.servers[i])[1]
               IN /\ n \in DOMAIN packageMetadata
                  /\ packageMetadata[n].visibility = "published"]_vars

\* the metadata of a package with a published version was deleted, a list
\* request with visibility = published returned nothing, and a PUT of
\* metadata has recreated the row (created after time 0) as draft
C27_Witness ==
  /\ adminResp.route = "put package metadata"
  /\ list.pages > 0
  /\ list.visibility = "published"
  /\ list.last.code = 200
  /\ list.last.servers = <<>>
  /\ \E k \in DOMAIN servers :
       /\ servers[k].visibility = "published"
       /\ k[1] \in DOMAIN packageMetadata
       /\ packageMetadata[k[1]].visibility = "draft"
       /\ packageMetadata[k[1]].registryMeta # EmptyMap
       /\ packageMetadata[k[1]].createdAt > 0

\* ------------------------------------------------- the two filtered lists
\* the keys a response holds
ResponseKeys(resp) == {JsonKey(resp.servers[i]) : i \in 1..Len(resp.servers)}

\* the whole list a client gets for a visibility parameter (Absent: none) in
\* one request with the largest limit
FullList(visibility) ==
  ResponseKeys(ListServers(servers, packageMetadata, LimitMax, <<>>,
                           visibility, Absent))

\* version-level and effective package-level visibility of a row differ
Mismatched(k) == servers[k].visibility # PackageVisibility(k[1])

\* C28: no record is in the draft list and in the published list; a record
\* whose version visibility differs from its package's effective visibility
\* is in neither and is in the list without visibility parameter; and every
\* record a request with a visibility parameter returns has that visibility
\* at both levels
C28_FilteredListsDisjoint ==
  /\ FullList("draft") \cap FullList("published") = {}
  /\ \A k \in DOMAIN servers :
       Mismatched(k) =>
         /\ k \notin FullList("draft") \cup FullList("published")
         /\ k \in FullList(Absent)
  /\ (list.pages > 0 /\ list.last.code = 200 /\ list.visibility \in Visibilities) =>
       \A k \in ResponseKeys(list.last) :
         /\ ~Mismatched(k)
         /\ servers[k].visibility = list.visibility
         /\ \A v \in Visibilities \ {list.visibility} : k \notin FullList(v)

\* a request with a visibility parameter was answered with a record while
\* the store holds a published version of a package without row and a draft
\* version of a published package
C28_Witness ==
  /\ list.pages > 0
  /\ list.last.code = 200
  /\ list.visibility \in Visibilities
  /\ Len(list.last.servers) > 0
  /\ \E k \in DOMAIN servers :
       servers[k].visibility = "published" /\ k[1] \notin DOMAIN packageMetadata
  /\ \E k \in DOMAIN servers :
       servers[k].visibility = "draft" /\ PackageVisibility(k[1]) = "published"

\* ------------------------------------------- traversal during writes
SweepKeys == {<<NameAX, Version1>>, <<NameAX, VersionColon>>, <<NameAX, Version2>>}

\* the stored keys that pass a visibility filter
MatchingIn(srv, pkgs, visibility) ==
  {k \in DOMAIN srv : FilterMatches(srv[k], pkgs, visibility, Absent)}

\* any of the versions stored as a run inserts them, no package rows; the
\* traversal carries as auxiliary value the keys that have been stored and
\* matching ever since it began
InitSweep ==
  /\ now = 0
  /\ upstream = [k \in {} |-> [variant |-> "full", updatedAt |-> 0]]
  /\ \E keys \in SUBSET SweepKeys : servers = [k \in keys |-> ListRow(k, "draft")]
  /\ packageMetadata = [n \in {} |-> 0]
  /\ syncLog = <<>>
  /\ invCount = 0
  /\ run = [r \in Triggers |-> IdleRun]
  /\ patchReq = NoPatch
  /\ adminMeta = [k \in {} |-> EmptyMap]
  /\ adminVis = [k \in {} |-> "draft"]
  /\ list = [stable |-> {}] @@ IdleList
  /\ lookup = NoLookup
  /\ adminResp = NoAdminResp
  /\ pkgPatch = NoPkgPatch

\* the client starts a traversal: first request without cursor
SweepStart(limit, visibility) ==
  /\ list.pc = "idle"
  /\ list' = [stable |-> MatchingIn(servers, packageMetadata, visibility)]
               @@ [IdleList EXCEPT !.pc = "paging", !.limit = limit,
                                   !.visibility = visibility]
  /\ UNCHANGED syncVars
  /\ UNCHANGED <<packageMetadata, lookup, adminResp, pkgPatch>>

\* a write has made the tables srv and pkgs: the keys that stay stored and
\* matching
StillStable(srv, pkgs) ==
  [list EXCEPT !.stable = @ \cap MatchingIn(srv, pkgs, list.visibility)]

\* the batch of a run that fetched the entry of key k, committed between two
\* page requests (db.batch: one transaction)
SweepCommit(k, v) ==
  /\ invCount < MaxInvocations
  /\ invCount' = invCount + 1
  /\ LET ts == <<transformToSubregistryFormat(
                   RawRecord(k, [variant |-> v, updatedAt |-> now]))>>
         row == LogRow(syncLog, "success", Len(ts), Null, now, invCount + 1)
         b == Batch(syncLog, servers, row, ts, now, TRUE)
     IN /\ syncLog' = b.syncLog
        /\ servers' = b.servers
        /\ list' = StillStable(b.servers, packageMetadata)
  /\ UNCHANGED <<now, upstream, packageMetadata, run, patchReq, adminMeta,
                 adminVis, lookup, adminResp, pkgPatch>>

\* PATCH /servers/:name/versions/:version/visibility between two page requests
SweepSetVisibility(k, v) ==
  /\ k \in DOMAIN servers
  /\ servers[k].visibility # v
  /\ servers' = SetVersionVisibility(servers, k, v, now)
  /\ adminVis' = (k :> v) @@ adminVis
  /\ list' = StillStable(servers', packageMetadata)
  /\ UNCHANGED <<now, upstream, packageMetadata, syncLog, invCount, run,
                 patchReq, adminMeta, lookup, adminResp, pkgPatch>>

\* the traversal model: one traversal, runs committing and the admin
\* changing visibilities between any two of its page requests
NextSweep ==
  \/ \E limit \in 1..MaxLimit, visibility \in Visibilities \cup {Absent} :
       SweepStart(limit, visibility)
  \/ ListRequest
  \/ \E k \in SweepKeys, v \in {"full", "bare"} : SweepCommit(k, v)
  \/ \E k \in SweepKeys, v \in Visibilities : SweepSetVisibility(k, v)

SpecSweep == InitSweep /\ [][NextSweep]_vars

\* C29: a traversal delivers no record twice, and when it ends it has
\* delivered every record that was stored and matching from its first
\* request on
C29_StableRecordsDeliveredOnce ==
  /\ \A i, j \in 1..Len(list.out) : list.out[i] = list.out[j] => i = j
  /\ list.pc # "error"
  /\ list.pc = "done" =>
       list.stable \subseteq {list.out[i] : i \in 1..Len(list.out)}

\* ------------------------------------------- requests without visibility
GateKeys == {<<NameAX, Version1>>, <<NameAX, Version2>>, <<NameAY, Version1>>}

GateNames == {NameAX, NameAY}

\* any of the versions stored, draft or published; each package without a
\* row, or with a row of either visibility
InitGate ==
  /\ now = 0
  /\ upstream = [k \in {} |-> [variant |-> "full", updatedAt |-> 0]]
  /\ \E keys \in SUBSET GateKeys : \E f \in [keys -> Visibilities] :
       servers = [k \in keys |-> ListRow(k, f[k])]
  /\ \E names \in SUBSET GateNames : \E g \in [names -> Visibilities] :
       packageMetadata = [n \in names |-> PackageRow(n, g[n])]
  /\ syncLog = <<>>
  /\ invCount = 0
  /\ run = [r \in Triggers |-> IdleRun]
  /\ patchReq = NoPatch
  /\ adminMeta = [k \in {} |-> EmptyMap]
  /\ adminVis = [k \in {} |-> "draft"]
  /\ list = IdleList
  /\ lookup = NoLookup
  /\ adminResp = NoAdminResp
  /\ pkgPatch = NoPkgPatch

\* the point lookups and the list traversal without visibility parameter
NextGate ==
  \/ \E n \in GateNames \cup {NameXA} : GetServer(n)
  \/ \E n \in GateNames \cup {NameXA}, v \in LookupVersions : GetServerVersion(n, v)
  \/ \E limit \in 1..MaxLimit : StartTraversal(limit, Absent, Absent)
  \/ ListRequest

SpecGate == InitGate /\ [][NextGate]_vars

\* C30: the exact-version lookup of a stored (name, version) returns that
\* record, the latest lookup of a name with a latest version returns one, and
\* a list traversal without visibility parameter delivers every stored
\* record, whatever the visibility of the version and of its package
C30_NoParameterNoGate ==
  /\ (lookup.route = "version" /\ <<lookup.name, lookup.version>> \in DOMAIN servers) =>
       /\ lookup.code = 200
       /\ JsonKey(lookup.body) = <<lookup.name, lookup.version>>
  /\ (lookup.route = "latest" /\ LatestOf(lookup.name) # {}) =>
       /\ lookup.code = 200
       /\ JsonKey(lookup.body) \in LatestOf(lookup.name)
  /\ (list.pages > 0 /\ list.sent = <<>>) =>
       /\ list.last.code = 200
       /\ [i \in 1..Len(list.last.servers) |-> JsonKey(list.last.servers[i])]
            = Take(SortKeys(DOMAIN servers), list.limit)
  /\ list.pc = "done" => list.out = SortKeys(DOMAIN servers)

\* a lookup returned a draft version of a name without package row, and a
\* finished traversal has delivered a draft version and a version whose
\* package is draft or has no row while the version is published
C30_Witness ==
  /\ lookup.code = 200
  /\ servers[JsonKey(lookup.body)].visibility = "draft"
  /\ lookup.name \notin DOMAIN packageMetadata
  /\ list.pc = "done"
  /\ \E i \in 1..Len(list.out) : servers[list.out[i]].visibility = "draft"
  /\ \E i \in 1..Len(list.out) :
       /\ servers[list.out[i]].visibility = "published"
       /\ PackageVisibility(list.out[i][1]) = "draft"
====
